---------------------------- MODULE Spec2Model ----------------------------
(***************************************************************************)
(* A model of the toplang compiler pipeline: Lexer (lexer.cpp), Parser     *)
(* (parser.cpp) and CodeGenerator (codegen.cpp), driven as in main.cpp.    *)
(*                                                                         *)
(* Characters are one-character strings, a source text is a sequence of    *)
(* characters, and a lexeme (Token::value) is a sequence of characters.    *)
(***************************************************************************)
EXTENDS Integers, Sequences, FiniteSets, TLC

VARIABLES
    pc,        \* where main() stands: "lex", "parse", "gen", "done"
    source,    \* Lexer::source
    lexer,     \* Lexer's cursor: [position, line, column, currentChar]
    tokens,    \* the TokenList that tokenize() is building
    parser,    \* Parser's fields: [tokens, position]
    program,   \* ProgramNode::statements that parseProgram() is building
    cerr,      \* the diagnostics written to std::cerr, in order
    codegen,   \* CodeGenerator's fields and the llvm::Module it owns
    stmt,      \* visit(ProgramNode&): number of top-level statements visited
    argv,      \* main()'s command line, as main() has parsed it
    files      \* the files of the working directory: name -> contents

vars == <<pc, source, lexer, tokens, parser, program, cerr, codegen, stmt, argv, files>>

---------------------------------------------------------------------------
(* Characters *)

NUL == "NUL"      \* the char '\0'
NL == "\n"
SP == " "
QUOTE == "\""

LowerCase == {"a", "b", "c", "d", "e", "f", "g", "h", "i", "j", "k", "l", "m",
             "n", "o", "p", "q", "r", "s", "t", "u", "v", "w", "x", "y", "z"}
UpperCase == {"A", "B", "C", "D", "E", "F", "G", "H", "I", "J", "K", "L", "M",
             "N", "O", "P", "Q", "R", "S", "T", "U", "V", "W", "X", "Y", "Z"}
Letters == LowerCase \cup UpperCase
Digits == {"0", "1", "2", "3", "4", "5", "6", "7", "8", "9"}

isspace(c) == c \in {SP, NL, "\t", "\r"}
isalpha(c) == c \in Letters
isdigit(c) == c \in Digits
isalnum(c) == isalpha(c) \/ isdigit(c)

---------------------------------------------------------------------------
(* token.h *)

Token(t, v, l, c) == [type |-> t, value |-> v, line |-> l, column |-> c]

---------------------------------------------------------------------------
(* lexer.cpp *)

\* The keyword table filled by the constructor; "" when the word is not a key.
keywords(w) ==
    CASE w = <<"f","u","n","c","t","i","o","n">> -> "FUNCTION"
      [] w = <<"r","e","t","u","r","n">> -> "RETURN"
      [] w = <<"i","f">> -> "IF"
      [] w = <<"e","l","s","e">> -> "ELSE"
      [] w = <<"w","h","i","l","e">> -> "WHILE"
      [] w = <<"f","o","r">> -> "FOR"
      [] w = <<"v","a","r">> -> "VARIABLE"
      [] w = <<"c","o","n","s","t">> -> "CONSTANT"
      [] w = <<"p","r","i","n","t">> -> "PRINT"
      [] w = <<"p","l","u","s">> -> "PLUS"
      [] w = <<"m","i","n","u","s">> -> "MINUS"
      [] w = <<"t","i","m","e","s">> -> "MULTIPLY"
      [] w = <<"d","i","v","i","d","e","d">> -> "DIVIDE"
      [] w = <<"i","s">> -> "ASSIGN"
      [] w = <<"e","q","u","a","l","s">> -> "EQUALS"
      [] w = <<"n","o","t">> -> "NOT_EQUALS"
      [] w = <<"g","r","e","a","t","e","r">> -> "GREATER"
      [] w = <<"l","e","s","s">> -> "LESS"
      [] OTHER -> ""

\* Lexer::Lexer
LexerInit(src) ==
    [position |-> 0, line |-> 1, column |-> 1,
     currentChar |-> IF src # <<>> THEN src[1] ELSE NUL]

\* Lexer::advance.  position is 0-based, as in the source.
advance(src, lx) ==
    LET p == lx.position + 1 IN
    IF p < Len(src)
    THEN LET c == src[p + 1] IN
         [position |-> p, currentChar |-> c,
          line |-> IF c = NL THEN lx.line + 1 ELSE lx.line,
          column |-> IF c = NL THEN 1 ELSE lx.column + 1]
    ELSE [lx EXCEPT !.position = p, !.currentChar = NUL]

RECURSIVE skipWhitespace(_, _)
\* Lexer::skipWhitespace
skipWhitespace(src, lx) ==
    IF lx.currentChar # NUL /\ isspace(lx.currentChar)
    THEN skipWhitespace(src, advance(src, lx))
    ELSE lx

RECURSIVE scanWhile(_, _, _, _)
\* The loop "while (currentChar != '\0' && P(currentChar)) { result +=
\* currentChar; advance(); }" of identifier, number and string; which names P.
scanWhile(src, lx, result, which) ==
    LET c == lx.currentChar
        P == CASE which = "alnum" -> isalnum(c) \/ c = "_"
               [] which = "digit" -> isdigit(c)
               [] which = "string" -> c # QUOTE
    IN  IF c # NUL /\ P
        THEN scanWhile(src, advance(src, lx), Append(result, c), which)
        ELSE [lx |-> lx, result |-> result]

\* Lexer::identifier
identifier(src, lx) ==
    LET startColumn == lx.column
        s == scanWhile(src, lx, <<>>, "alnum")
    IN  [lx |-> s.lx,
         token |-> IF keywords(s.result) # ""
                   THEN Token(keywords(s.result), s.result, s.lx.line, startColumn)
                   ELSE Token("IDENTIFIER", s.result, s.lx.line, startColumn)]

\* Lexer::number
number(src, lx) ==
    LET startColumn == lx.column
        s1 == scanWhile(src, lx, <<>>, "digit")
        s2 == IF s1.lx.currentChar = "."
              THEN scanWhile(src, advance(src, s1.lx), Append(s1.result, "."), "digit")
              ELSE s1
    IN  [lx |-> s2.lx, token |-> Token("NUMBER", s2.result, s2.lx.line, startColumn)]

\* Lexer::string
string(src, lx) ==
    LET startColumn == lx.column
        s == scanWhile(src, advance(src, lx), <<>>, "string")
        end == IF s.lx.currentChar = QUOTE THEN advance(src, s.lx) ELSE s.lx
    IN  [lx |-> end, token |-> Token("STRING", s.result, end.line, startColumn)]

\* A skipComment that consumes nothing: the comment is never left.
skipCommentNoAdvance(src, lx) == lx

RECURSIVE skipComment(_, _)
\* Lexer::skipComment
skipComment(src, lx) ==
    IF lx.currentChar # NUL /\ lx.currentChar # NL
    THEN skipComment(src, advance(src, lx))
    ELSE lx

\* One iteration of the while loop of Lexer::tokenize.
tokenizeIteration(src, lx, toks) ==
    LET c == lx.currentChar
        single(t) == [lx |-> advance(src, lx),
                      tokens |-> Append(toks, Token(t, <<c>>, lx.line, lx.column))]
        push(r) == [lx |-> r.lx, tokens |-> Append(toks, r.token)]
    IN  CASE isspace(c) -> [lx |-> skipWhitespace(src, lx), tokens |-> toks]
          [] ~isspace(c) /\ (isalpha(c) \/ c = "_") -> push(identifier(src, lx))
          [] ~isspace(c) /\ isdigit(c) -> push(number(src, lx))
          [] OTHER ->
               CASE c = "{" -> single("LEFT_BRACE")
                 [] c = "}" -> single("RIGHT_BRACE")
                 [] c = "(" -> single("LEFT_PAREN")
                 [] c = ")" -> single("RIGHT_PAREN")
                 [] c = "," -> single("COMMA")
                 [] c = QUOTE -> push(string(src, lx))
                 [] c = "#" -> [lx |-> skipComment(src, lx), tokens |-> toks]
                 [] c = NL -> single("EOL")
                 [] OTHER -> single("UNKNOWN")

RECURSIVE tokenizeLoop(_, _, _)
\* The while loop of Lexer::tokenize.
tokenizeLoop(src, lx, toks) ==
    IF lx.currentChar # NUL
    THEN LET r == tokenizeIteration(src, lx, toks) IN tokenizeLoop(src, r.lx, r.tokens)
    ELSE [lx |-> lx, tokens |-> toks]

\* Lexer::tokenize on a fresh Lexer for src: the token list returned.
tokenize(src) ==
    LET r == tokenizeLoop(src, LexerInit(src), <<>>) IN
    Append(r.tokens, Token("END_OF_FILE", <<>>, r.lx.line, r.lx.column))

\* Parser::Parser
ParserInit(toks) == [tokens |-> toks, position |-> 0]

NoParser == ParserInit(<<>>)
\* No CodeGenerator is constructed before the program is parsed.
NoCodegen == [fault |-> "none"]
\* main() has not parsed its command line; nothing is known of the directory.
NoArgs == [mode |-> "none"]
NoFiles == <<>>

\* Lexer::tokenize, the loop: one iteration.
TokenizeStep ==
    /\ pc = "lex"
    /\ lexer.currentChar # NUL
    /\ \E r \in {tokenizeIteration(source, lexer, tokens)} :
         /\ lexer' = r.lx
         /\ tokens' = r.tokens
    /\ UNCHANGED <<pc, source, parser, program, cerr, codegen, stmt, argv, files>>

\* Lexer::tokenize, after the loop: END_OF_FILE is appended and the list is
\* returned to main(), which constructs the Parser from it.
TokenizeEnd ==
    /\ pc = "lex"
    /\ lexer.currentChar = NUL
    /\ tokens' = Append(tokens, Token("END_OF_FILE", <<>>, lexer.line, lexer.column))
    /\ parser' = ParserInit(tokens')
    /\ pc' = "parse"
    /\ UNCHANGED <<source, lexer, program, cerr, codegen, stmt, argv, files>>

---------------------------------------------------------------------------
(* ast.h: the node variants, as records tagged by kind. *)

Null == [kind |-> "Null"]      \* a null std::unique_ptr<ASTNode>
NumberNode(v) == [kind |-> "Number", value |-> v]
StringNode(v) == [kind |-> "String", value |-> v]
IdentifierNode(n) == [kind |-> "Identifier", name |-> n]
CallNode(f, args) == [kind |-> "Call", callee |-> f, arguments |-> args]
BinaryOpNode(op, l, r) == [kind |-> "BinaryOp", operation |-> op, left |-> l, right |-> r]
VariableDeclarationNode(n, c, v) ==
    [kind |-> "VariableDeclaration", name |-> n, isConstant |-> c, initialValue |-> v]
BlockNode(stmts) == [kind |-> "Block", statements |-> stmts]
FunctionNode(n, params, body) ==
    [kind |-> "Function", name |-> n, parameters |-> params, body |-> body]
IfNode(c, t, e) == [kind |-> "If", condition |-> c, thenBlock |-> t, elseBlock |-> e]
WhileNode(c, b) == [kind |-> "While", condition |-> c, body |-> b]
PrintNode(e) == [kind |-> "Print", expression |-> e]
ReturnNode(v) == [kind |-> "Return", value |-> v]

---------------------------------------------------------------------------
(* parser.cpp *)

RECURSIVE digitsValue(_)
\* The natural number written by a sequence of decimal digits.
digitsValue(ds) ==
    IF ds = <<>> THEN 0
    ELSE LET d == ds[Len(ds)]
             v == CHOOSE n \in 0..9 : ToString(n) = d
         IN  10 * digitsValue(SubSeq(ds, 1, Len(ds) - 1)) + v

RECURSIVE trimZeros(_)
trimZeros(ds) ==
    IF ds # <<>> /\ ds[Len(ds)] = "0" THEN trimZeros(SubSeq(ds, 1, Len(ds) - 1)) ELSE ds

\* std::stod on a NUMBER lexeme (digits, optionally "." and digits): the
\* double it denotes, as its whole part and its significant fraction digits.
stod(lexeme) ==
    LET dots == {i \in 1..Len(lexeme) : lexeme[i] = "."}
        dot == IF dots = {} THEN Len(lexeme) + 1 ELSE CHOOSE i \in dots : TRUE
    IN  [whole |-> digitsValue(SubSeq(lexeme, 1, dot - 1)),
         frac |-> trimZeros(SubSeq(lexeme, dot + 1, Len(lexeme)))]

\* Parser::currentToken
currentToken(toks, pos) ==
    IF pos >= Len(toks) THEN Token("END_OF_FILE", <<>>, 0, 0) ELSE toks[pos + 1]

GlueThan == <<"t", "h", "a", "n">>
GlueBy == <<"b", "y">>

\* What a parse routine hands back: the node and the cursor after it, or the
\* std::runtime_error it threw and the cursor at the throw.
Ok(node, pos) == [ok |-> TRUE, node |-> node, pos |-> pos, what |-> <<>>]
Throw(what, pos) == [ok |-> FALSE, node |-> Null, pos |-> pos, what |-> what]

\* A call of a parse routine followed by the rest of its caller: when the
\* callee throws, the exception passes through the caller unchanged; else the
\* caller goes on with the callee's result.
Bind(r, Rest(_)) == IF r.ok THEN Rest(r) ELSE r

RECURSIVE parseStatement(_, _)
RECURSIVE parseBlock(_, _)
RECURSIVE parseBlockLoop(_, _, _)
RECURSIVE parseExpression(_, _)
RECURSIVE parseExpressionLoop(_, _, _)
RECURSIVE parseTerm(_, _)
RECURSIVE parseTermLoop(_, _, _)
RECURSIVE parseFactor(_, _)
RECURSIVE parseFactorLoop(_, _, _)
RECURSIVE parsePrimary(_, _)
RECURSIVE parseArguments(_, _, _)

\* A parser that never takes "than" for a glue word.
skipThanNever(toks, op, pos) == pos

\* The glue word of parseExpression: "than" is skipped after greater and less.
skipThan(toks, op, pos) ==
    IF /\ op \in {"Greater", "Less"}
       /\ currentToken(toks, pos).type = "IDENTIFIER"
       /\ currentToken(toks, pos).value = GlueThan
    THEN pos + 1 ELSE pos

\* The glue word of parseFactor: "by" is skipped after divided.
skipBy(toks, op, pos) ==
    IF /\ op = "Divide"
       /\ currentToken(toks, pos).type = "IDENTIFIER"
       /\ currentToken(toks, pos).value = GlueBy
    THEN pos + 1 ELSE pos

\* Parser::parsePrimary
parsePrimary(toks, pos) ==
    LET t == currentToken(toks, pos) IN
    CASE t.type = "NUMBER" -> Ok(NumberNode(stod(t.value)), pos + 1)
      [] t.type = "STRING" -> Ok(StringNode(t.value), pos + 1)
      [] t.type = "IDENTIFIER" ->
           IF currentToken(toks, pos + 1).type = "LEFT_PAREN"
           THEN Bind(IF currentToken(toks, pos + 2).type # "RIGHT_PAREN"
                     THEN parseArguments(toks, pos + 2, <<>>)
                     ELSE Ok(<<>>, pos + 2),
                     LAMBDA a :
                       IF currentToken(toks, a.pos).type # "RIGHT_PAREN"
                       THEN Throw(<<"Expected ')' after function arguments">>, a.pos)
                       ELSE Ok(CallNode(t.value, a.node), a.pos + 1))
           ELSE Ok(IdentifierNode(t.value), pos + 1)
      [] t.type = "LEFT_PAREN" ->
           Bind(parseExpression(toks, pos + 1),
                LAMBDA e :
                  IF currentToken(toks, e.pos).type # "RIGHT_PAREN"
                  THEN Throw(<<"Expected ')'">>, e.pos)
                  ELSE Ok(e.node, e.pos + 1))
      [] OTHER -> Throw(<<"Unexpected token: ", t.value>>, pos)

\* The argument list of a call in parsePrimary: an expression, then one more
\* after every comma.  The result's node is the list of arguments.
parseArguments(toks, pos, args) ==
    Bind(parseExpression(toks, pos),
         LAMBDA e :
           IF currentToken(toks, e.pos).type = "COMMA"
           THEN parseArguments(toks, e.pos + 1, Append(args, e.node))
           ELSE Ok(Append(args, e.node), e.pos))

\* Parser::parseFactor
parseFactor(toks, pos) ==
    Bind(parsePrimary(toks, pos), LAMBDA l : parseFactorLoop(toks, l.node, l.pos))

\* The while loop of parseFactor.
parseFactorLoop(toks, left, pos) ==
    LET ty == currentToken(toks, pos).type
        op == IF ty = "MULTIPLY" THEN "Multiply" ELSE "Divide"
    IN  IF ty \in {"MULTIPLY", "DIVIDE"}
        THEN Bind(parsePrimary(toks, skipBy(toks, op, pos + 1)),
                  LAMBDA r : parseFactorLoop(toks, BinaryOpNode(op, left, r.node), r.pos))
        ELSE Ok(left, pos)

\* Parser::parseTerm
parseTerm(toks, pos) ==
    Bind(parseFactor(toks, pos), LAMBDA l : parseTermLoop(toks, l.node, l.pos))

\* A parseTerm loop that takes a primary, not a factor, for the right operand:
\* plus and minus would bind as tightly as times and divided.
parseTermLoopFlat(toks, left, pos) ==
    IF currentToken(toks, pos).type \in {"PLUS", "MINUS"}
    THEN Bind(parsePrimary(toks, pos + 1),
              LAMBDA r : parseTermLoop(
                             toks,
                             BinaryOpNode(IF currentToken(toks, pos).type = "PLUS"
                                          THEN "Add" ELSE "Subtract", left, r.node),
                             r.pos))
    ELSE Ok(left, pos)

\* The while loop of parseTerm.
parseTermLoop(toks, left, pos) ==
    LET ty == currentToken(toks, pos).type
        op == IF ty = "PLUS" THEN "Add" ELSE "Subtract"
    IN  IF ty \in {"PLUS", "MINUS"}
        THEN Bind(parseFactor(toks, pos + 1),
                  LAMBDA r : parseTermLoop(toks, BinaryOpNode(op, left, r.node), r.pos))
        ELSE Ok(left, pos)

\* Parser::parseExpression
parseExpression(toks, pos) ==
    Bind(parseTerm(toks, pos), LAMBDA l : parseExpressionLoop(toks, l.node, l.pos))

\* The BinaryOpNode::Operation of a token type of parseExpression's loop.
\* A switch that reads the token not as the equality comparator.
comparisonOpNotAsEquals(ty) ==
    CASE ty = "ASSIGN" -> "Assign"
      [] ty \in {"EQUALS", "NOT_EQUALS"} -> "Equals"
      [] ty = "GREATER" -> "Greater"
      [] ty = "LESS" -> "Less"

\* The switch of parseExpression: the BinaryOpNode::Op of an operator token.
comparisonOp(ty) ==
    CASE ty = "ASSIGN" -> "Assign"
      [] ty = "EQUALS" -> "Equals"
      [] ty = "NOT_EQUALS" -> "NotEquals"
      [] ty = "GREATER" -> "Greater"
      [] ty = "LESS" -> "Less"

\* A parseExpression loop that takes a whole expression for the right operand:
\* chains would nest to the right.
parseExpressionLoopRight(toks, left, pos) ==
    IF currentToken(toks, pos).type \in {"ASSIGN", "EQUALS", "NOT_EQUALS", "GREATER", "LESS"}
    THEN Bind(parseExpression(
                  toks, skipThan(toks, comparisonOp(currentToken(toks, pos).type), pos + 1)),
              LAMBDA r : Ok(BinaryOpNode(comparisonOp(currentToken(toks, pos).type),
                                         left, r.node), r.pos))
    ELSE Ok(left, pos)

\* The while loop of parseExpression.
parseExpressionLoop(toks, left, pos) ==
    LET ty == currentToken(toks, pos).type IN
    IF ty \in {"ASSIGN", "EQUALS", "NOT_EQUALS", "GREATER", "LESS"}
    THEN Bind(parseTerm(toks, skipThan(toks, comparisonOp(ty), pos + 1)),
              LAMBDA r : parseExpressionLoop(
                             toks, BinaryOpNode(comparisonOp(ty), left, r.node), r.pos))
    ELSE Ok(left, pos)

\* Parser::parseVariableDeclaration
parseVariableDeclaration(toks, pos) ==
    LET isConstant == currentToken(toks, pos).type = "CONSTANT" IN
    IF currentToken(toks, pos + 1).type # "IDENTIFIER"
    THEN Throw(<<"Expected identifier after 'var' or 'const'">>, pos + 1)
    ELSE IF currentToken(toks, pos + 2).type # "ASSIGN"
    THEN Throw(<<"Expected 'is' after variable name">>, pos + 2)
    ELSE Bind(parseExpression(toks, pos + 3),
              LAMBDA e : Ok(VariableDeclarationNode(currentToken(toks, pos + 1).value,
                                                    isConstant, e.node), e.pos))

\* Parser::parseBlock
parseBlock(toks, pos) ==
    IF currentToken(toks, pos).type # "LEFT_BRACE"
    THEN Throw(<<"Expected '{' at the beginning of a block">>, pos)
    ELSE parseBlockLoop(toks, pos + 1, <<>>)

\* The while loop of parseBlock and what follows it.
parseBlockLoop(toks, pos, stmts) ==
    IF currentToken(toks, pos).type \notin {"RIGHT_BRACE", "END_OF_FILE"}
    THEN Bind(parseStatement(toks, pos),
              LAMBDA st : parseBlockLoop(
                              toks, st.pos,
                              IF st.node # Null THEN Append(stmts, st.node) ELSE stmts))
    ELSE IF currentToken(toks, pos).type # "RIGHT_BRACE"
    THEN Throw(<<"Expected '}' at the end of a block">>, pos)
    ELSE Ok(BlockNode(stmts), pos + 1)

RECURSIVE parseParameters(_, _, _)
\* The parameter list of parseFunction after its first name: one more name
\* after every comma.  The result's node is the list of names.
parseParameters(toks, pos, params) ==
    IF currentToken(toks, pos).type = "COMMA"
    THEN IF currentToken(toks, pos + 1).type # "IDENTIFIER"
         THEN Throw(<<"Expected parameter name after comma">>, pos + 1)
         ELSE parseParameters(toks, pos + 2,
                              Append(params, currentToken(toks, pos + 1).value))
    ELSE Ok(params, pos)

\* Parser::parseFunction
parseFunction(toks, pos) ==
    IF currentToken(toks, pos + 1).type # "IDENTIFIER"
    THEN Throw(<<"Expected function name">>, pos + 1)
    ELSE IF currentToken(toks, pos + 2).type # "LEFT_PAREN"
    THEN Throw(<<"Expected '(' after function name">>, pos + 2)
    ELSE Bind(IF currentToken(toks, pos + 3).type # "RIGHT_PAREN"
              THEN IF currentToken(toks, pos + 3).type # "IDENTIFIER"
                   THEN Throw(<<"Expected parameter name">>, pos + 3)
                   ELSE parseParameters(toks, pos + 4,
                                        <<currentToken(toks, pos + 3).value>>)
              ELSE Ok(<<>>, pos + 3),
              LAMBDA ps :
                IF currentToken(toks, ps.pos).type # "RIGHT_PAREN"
                THEN Throw(<<"Expected ')' after parameters">>, ps.pos)
                ELSE Bind(parseBlock(toks, ps.pos + 1),
                          LAMBDA body :
                            Ok(FunctionNode(currentToken(toks, pos + 1).value,
                                            ps.node, body.node), body.pos)))

\* Parser::parseIfStatement
parseIfStatement(toks, pos) ==
    Bind(parseExpression(toks, pos + 1),
         LAMBDA c :
           Bind(parseBlock(toks, c.pos),
                LAMBDA th :
                  IF currentToken(toks, th.pos).type = "ELSE"
                  THEN Bind(parseBlock(toks, th.pos + 1),
                            LAMBDA el : Ok(IfNode(c.node, th.node, el.node), el.pos))
                  ELSE Ok(IfNode(c.node, th.node, Null), th.pos)))

\* Parser::parseWhileLoop
parseWhileLoop(toks, pos) ==
    Bind(parseExpression(toks, pos + 1),
         LAMBDA c :
           Bind(parseBlock(toks, c.pos),
                LAMBDA body : Ok(WhileNode(c.node, body.node), body.pos)))

\* Parser::parsePrintStatement
parsePrintStatement(toks, pos) ==
    Bind(parseExpression(toks, pos + 1), LAMBDA e : Ok(PrintNode(e.node), e.pos))

RECURSIVE skipEOL(_, _)
\* The loop "while (currentToken().type == EOL) advance()" of parseStatement.
skipEOL(toks, pos) ==
    IF currentToken(toks, pos).type = "EOL" THEN skipEOL(toks, pos + 1) ELSE pos

\* parseStatement at a token that is not EOL.
parseStatementAt(toks, pos) ==
    LET ty == currentToken(toks, pos).type IN
    CASE ty = "END_OF_FILE" -> Ok(Null, pos)
      [] ty = "FUNCTION" -> parseFunction(toks, pos)
      [] ty \in {"VARIABLE", "CONSTANT"} -> parseVariableDeclaration(toks, pos)
      [] ty = "IF" -> parseIfStatement(toks, pos)
      [] ty = "WHILE" -> parseWhileLoop(toks, pos)
      [] ty = "PRINT" -> parsePrintStatement(toks, pos)
      [] ty = "RETURN" ->
           Bind(parseExpression(toks, pos + 1), LAMBDA e : Ok(ReturnNode(e.node), e.pos))
      [] ty = "LEFT_BRACE" -> parseBlock(toks, pos)
      [] OTHER -> parseExpression(toks, pos)

\* Parser::parseStatement
parseStatement(toks, pos) == parseStatementAt(toks, skipEOL(toks, pos))

\* A catch block that reports the error and skips nothing.
recoverNothing(toks, pos) == pos

RECURSIVE recover(_, _)
\* The recovery of parseProgram's catch block: skip to the next EOL or to
\* END_OF_FILE, and past the EOL.
recover(toks, pos) ==
    LET ty == currentToken(toks, pos).type IN
    IF ty # "EOL" /\ ty # "END_OF_FILE" THEN recover(toks, pos + 1)
    ELSE IF ty = "EOL" THEN pos + 1 ELSE pos

\* One line of std::cerr written by parseProgram's catch block.
ParserError(t, what) == [from |-> "Parser", line |-> t.line, column |-> t.column, what |-> what]

\* The body of parseProgram's loop once parseStatement has returned or thrown
\* st: the statement is added, or the catch block reports and recovers.
addStatement(p, stmts, err, st) ==
    IF st.ok
    THEN [parser |-> [p EXCEPT !.position = st.pos],
          program |-> IF st.node # Null THEN Append(stmts, st.node) ELSE stmts,
          cerr |-> err]
    ELSE [parser |-> [p EXCEPT !.position = recover(p.tokens, st.pos)],
          program |-> stmts,
          cerr |-> Append(err, ParserError(currentToken(p.tokens, st.pos), st.what))]

\* One iteration of the while loop of Parser::parseProgram: p is the parser,
\* stmts the program's statements so far and err the diagnostics so far.
parseProgramIteration(p, stmts, err) ==
    addStatement(p, stmts, err, parseStatement(p.tokens, p.position))

RECURSIVE parseProgram(_, _, _)
\* Parser::parseProgram, the whole loop.
parseProgram(p, stmts, err) ==
    IF currentToken(p.tokens, p.position).type # "END_OF_FILE"
    THEN LET r == parseProgramIteration(p, stmts, err) IN
         parseProgram(r.parser, r.program, r.cerr)
    ELSE [parser |-> p, program |-> stmts, cerr |-> err]

\* Parser::parse on a fresh Parser for toks.
parse(toks) == parseProgram(ParserInit(toks), <<>>, <<>>)

\* Parser::parseProgram, the loop: one iteration.
ParseProgramStep ==
    /\ pc = "parse"
    /\ currentToken(parser.tokens, parser.position).type # "END_OF_FILE"
    /\ \E r \in {parseProgramIteration(parser, program, cerr)} :
         /\ parser' = r.parser
         /\ program' = r.program
         /\ cerr' = r.cerr
    /\ UNCHANGED <<pc, source, lexer, tokens, codegen, stmt, argv, files>>

---------------------------------------------------------------------------
(* Inputs of the lexer specification *)

MaxLen == 4

Alphabet == {"a", "1", SP, NL, QUOTE, "#", ".", "{", "?", NUL}

RECURSIVE SeqsUpTo(_, _)
SeqsUpTo(S, n) ==
    IF n = 0 THEN {<<>>}
    ELSE LET shorter == SeqsUpTo(S, n - 1) IN
         shorter \cup {Append(s, x) : s \in {t \in shorter : Len(t) = n - 1}, x \in S}

LexInit ==
    /\ source \in SeqsUpTo(Alphabet, MaxLen)
    /\ lexer = LexerInit(source)
    /\ tokens = <<>>
    /\ pc = "lex"
    /\ parser = NoParser
    /\ program = <<>>
    /\ cerr = <<>>
    /\ codegen = NoCodegen
    /\ stmt = 0
    /\ argv = NoArgs
    /\ files = NoFiles

LexNext == TokenizeStep \/ TokenizeEnd

SpecLex == LexInit /\ [][LexNext]_vars

---------------------------------------------------------------------------
(* The lexer's claims *)

IsEOF(t) == t.type = "END_OF_FILE"

RECURSIVE NewlinesOutsideStrings(_, _, _)
\* The number of newline characters of src, from index i on, that are outside
\* a string literal; mode is "code", "string" or "comment" at index i.
NewlinesOutsideStrings(src, i, mode) ==
    IF i > Len(src) THEN 0
    ELSE LET c == src[i] IN
         CASE mode = "string" ->
                NewlinesOutsideStrings(src, i + 1, IF c = QUOTE THEN "code" ELSE "string")
           [] mode = "comment" ->
                IF c = NL THEN 1 + NewlinesOutsideStrings(src, i + 1, "code")
                ELSE NewlinesOutsideStrings(src, i + 1, "comment")
           [] OTHER ->
                CASE c = NL -> 1 + NewlinesOutsideStrings(src, i + 1, "code")
                  [] c = QUOTE -> NewlinesOutsideStrings(src, i + 1, "string")
                  [] c = "#" -> NewlinesOutsideStrings(src, i + 1, "comment")
                  [] OTHER -> NewlinesOutsideStrings(src, i + 1, "code")

CountType(toks, t) == Cardinality({k \in 1..Len(toks) : toks[k].type = t})

\* C4: when tokenize has returned, the token list holds exactly one EOL token
\* for every newline character of the source that is outside a string literal
\* (the newline ending a # comment included), for a source without NUL bytes.
C4_NewlineGivesEOL ==
    (pc # "lex" /\ \A i \in 1..Len(source) : source[i] # NUL) =>
        CountType(tokens, "EOL") = NewlinesOutsideStrings(source, 1, "code")

\* C5: tokenize terminates and returns a list ending in its only END_OF_FILE
\* token: while the loop runs an iteration is always possible and every
\* iteration moves the cursor forward, the cursor never passes the end of the
\* source, and the returned list ends in END_OF_FILE and holds no other one.
C5_TokenizeTotal ==
    /\ [](pc = "lex" => /\ lexer.position <= Len(source)
                        /\ ENABLED <<TokenizeStep \/ TokenizeEnd>>_vars)
    /\ [][pc = "lex" /\ pc' = "lex" => lexer'.position > lexer.position]_vars
    /\ [](pc # "lex" => /\ tokens # <<>>
                        /\ IsEOF(tokens[Len(tokens)])
                        /\ CountType(tokens, "END_OF_FILE") = 1)

\* C5's case: tokenize has returned for a source with a comment, after at
\* least two tokens were produced before END_OF_FILE.
C5_Witness ==
    /\ pc # "lex"
    /\ Len(tokens) >= 3
    /\ \E i \in 1..Len(source) : source[i] = "#"

\* The 1-based line of the character at 0-based offset p of src.
TrueLine(src, p) == 1 + Cardinality({i \in 1..p : src[i] = NL})

\* The 1-based column of the character at 0-based offset p of src.
TrueColumn(src, p) ==
    LET nls == {i \in 1..p : src[i] = NL}
        last == IF nls = {} THEN 0 ELSE CHOOSE i \in nls : \A j \in nls : j <= i
    IN  p + 1 - last

\* C6: every token pushed by an iteration of tokenize carries the 1-based line
\* and column of the first character of its lexeme, which is the character the
\* cursor stands on when the iteration starts.
C6_TokenPositions ==
    [][(pc = "lex" /\ pc' = "lex" /\ Len(tokens') = Len(tokens) + 1) =>
         LET t == tokens'[Len(tokens')] IN
           /\ t.line = TrueLine(source, lexer.position)
           /\ t.column = TrueColumn(source, lexer.position)]_vars

PosLeq(t, u) == t.line < u.line \/ (t.line = u.line /\ t.column <= u.column)

\* C7: the positions of consecutive tokens of the list are non-decreasing in
\* (line, column) order.
C7_PositionsMonotone ==
    \A k \in 1..(Len(tokens) - 1) : PosLeq(tokens[k], tokens[k + 1])

---------------------------------------------------------------------------
(* codegen.cpp *)

\* llvm::Value*: a null pointer, a constant, an instruction's result or a
\* function argument.  ref tells which one.
NullValue == [kind |-> "null", type |-> "none", ref |-> <<>>]
IsNull(v) == v.kind = "null"
ConstantFP(x) == [kind |-> "const", type |-> "double", ref |-> <<"fp", x>>]
Zero == ConstantFP(stod(<<"0">>))
InstValue(t, id) == [kind |-> "inst", type |-> t, ref |-> <<"inst", id>>]
ArgValue(f, i) == [kind |-> "arg", type |-> "double", ref |-> <<"arg", f, i>>]
StringPtr(chars) == [kind |-> "const", type |-> "ptr", ref |-> <<"str", chars>>]
\* What the IRBuilder's constant folder returns for an operation on constants.
Folded(op, t, l, r) == [kind |-> "const", type |-> t, ref |-> <<op, l.ref, r.ref>>]

\* An llvm::Function of the module: blocks lists its basic blocks, in order,
\* as indexes into the generator's blocks.
Function(n, params, ret) == [name |-> n, params |-> params, ret |-> ret, blocks |-> <<>>]

printDouble == <<"p", "r", "i", "n", "t", "D", "o", "u", "b", "l", "e">>
printString == <<"p", "r", "i", "n", "t", "S", "t", "r", "i", "n", "g">>

\* CodeGenerator::declareStandardFunctions
declareStandardFunctions ==
    <<Function(printDouble, <<<<>>>>, "void"), Function(printString, <<<<>>>>, "void")>>

\* CodeGenerator::CodeGenerator: a fresh module with the two print functions
\* declared, a builder with no insertion point (insertBlock = 0), an empty
\* symbol table and a null currentValue.
CodeGeneratorInit ==
    [functions |-> declareStandardFunctions,
     blocks |-> <<>>,
     insertBlock |-> 0,
     namedValues |-> <<>>,
     currentValue |-> NullValue,
     nextId |-> 1,
     fault |-> "none"]

\* What dereferencing a null pointer can do to the run: the process is killed,
\* or it goes on in a way nothing can be said about.  Either ends the model's
\* account of the run.
UBOutcomes == {"segfault", "arbitrary"}

\* The generator while it visits: cg is the CodeGenerator, cerr the
\* diagnostics so far, ub the outcome a null dereference would have.
Live(g) == g.cg.fault = "none"
Fault(g) == IF Live(g) THEN [g EXCEPT !.cg.fault = g.ub] ELSE g
\* A step of a visit routine followed by the rest of the routine: after a
\* fault nothing more of the generator runs.
Then(g, Rest(_)) == IF Live(g) THEN Rest(g) ELSE g

setCurrentValue(g, v) == IF Live(g) THEN [g EXCEPT !.cg.currentValue = v] ELSE g
CodegenError(what) == [from |-> "CodeGenerator", line |-> 0, column |-> 0, what |-> what]
\* A line written to std::cerr and currentValue = nullptr (or return nullptr).
Diagnose(g, what) ==
    IF Live(g)
    THEN [g EXCEPT !.cerr = Append(@, CodegenError(what)), !.cg.currentValue = NullValue]
    ELSE g

IsTerminator(inst) == inst.op \in {"ret", "br", "condbr"}

\* BasicBlock::getTerminator() != nullptr: the block's last instruction is a
\* terminator.
getTerminator(cg, b) ==
    /\ cg.blocks[b].insts # <<>>
    /\ IsTerminator(cg.blocks[b].insts[Len(cg.blocks[b].insts)])

Instruction(id, op, t, args, targets, callee) ==
    [id |-> id, op |-> op, type |-> t, args |-> args, targets |-> targets, callee |-> callee]

\* IRBuilder::Insert after Create...: the new instruction goes to the end of
\* the insertion block; with no insertion point it is created and left out of
\* every block.  callee is the index of the called function, 0 if none.
Create(g, op, t, args, targets, callee) ==
    IF ~Live(g) THEN g
    ELSE IF g.cg.insertBlock = 0
    THEN [g EXCEPT !.cg.nextId = @ + 1]
    ELSE [g EXCEPT !.cg.nextId = @ + 1,
                   !.cg.blocks[g.cg.insertBlock].insts =
                       Append(@, Instruction(g.cg.nextId, op, t, args, targets, callee))]

CreateAlloca(g) == Create(g, "alloca", "ptr", <<>>, <<>>, 0)
CreateStore(g, v, ptr) == Create(g, "store", "void", <<v, ptr>>, <<>>, 0)
CreateRet(g, v) == Create(g, "ret", "void", <<v>>, <<>>, 0)
CreateBr(g, dest) == Create(g, "br", "void", <<>>, <<dest>>, 0)
CreateCondBr(g, c, t, e) == Create(g, "condbr", "void", <<c>>, <<t, e>>, 0)

\* The tempBuilder of visit(VariableDeclarationNode&): the alloca goes to the
\* front of block b.
CreateAllocaAtBegin(g, b) ==
    IF ~Live(g) THEN g
    ELSE [g EXCEPT !.cg.nextId = @ + 1,
                   !.cg.blocks[b].insts =
                       <<Instruction(g.cg.nextId, "alloca", "ptr", <<>>, <<>>, 0)>> \o @]

\* BasicBlock::Create(context, label, parent): parent is a function's index,
\* or 0 for a block that is in no function yet.  The new block's index is
\* Len(blocks) + 1.
CreateBlock(g, label, parent) ==
    IF ~Live(g) THEN g
    ELSE IF parent = 0
    THEN [g EXCEPT !.cg.blocks =
              Append(@, [label |-> label, parent |-> parent, insts |-> <<>>])]
    ELSE [g EXCEPT !.cg.blocks =
              Append(@, [label |-> label, parent |-> parent, insts |-> <<>>]),
                   !.cg.functions[parent].blocks = Append(@, Len(g.cg.blocks) + 1)]

\* BasicBlock::insertInto(function)
insertInto(g, b, f) ==
    IF ~Live(g) THEN g
    ELSE [g EXCEPT !.cg.blocks[b].parent = f,
                   !.cg.functions[f].blocks = Append(@, b)]

\* IRBuilder::SetInsertPoint(block)
SetInsertPoint(g, b) == IF Live(g) THEN [g EXCEPT !.cg.insertBlock = b] ELSE g

\* namedValues[n] = v
bind(g, n, v) ==
    IF ~Live(g) THEN g
    ELSE [g EXCEPT !.cg.namedValues = [m \in DOMAIN @ \cup {n} |->
                                          IF m = n THEN v ELSE @[m]]]

\* std::map::operator[] on namedValues: a name not yet in the map is entered
\* with a null value.
touch(g, n) == IF n \in DOMAIN g.cg.namedValues THEN g ELSE bind(g, n, NullValue)

\* Module::getFunction: the index of the function called n, or 0.
getFunction(cg, n) ==
    IF \E f \in 1..Len(cg.functions) : cg.functions[f].name = n
    THEN CHOOSE f \in 1..Len(cg.functions) : cg.functions[f].name = n
    ELSE 0

RECURSIVE uniqueName(_, _, _)
\* The name a symbol table gives to a value asking for a name that is taken:
\* n with the first number k, k + 1, ... that makes it free.
uniqueName(n, used, k) ==
    IF (n \o <<ToString(k)>>) \notin used THEN n \o <<ToString(k)>>
    ELSE uniqueName(n, used, k + 1)

\* A binary operation of the IRBuilder on l and r: folded when both are
\* constants, else an instruction.
CreateBinary(g, op, t, l, r) ==
    IF l.kind = "const" /\ r.kind = "const"
    THEN [g |-> g, value |-> Folded(op, t, l, r)]
    ELSE [g |-> Create(g, op, t, <<l, r>>, <<>>, 0), value |-> InstValue(t, g.cg.nextId)]

\* currentValue = the value an IRBuilder call returned.
setResult(r) == setCurrentValue(r.g, r.value)

\* A coercion that compares every condition with 0.0.
coerceAlways(g, condValue) == CreateBinary(g, "fcmp one", "i1", condValue, Zero)

\* The condition of If and While made boolean: a value that is not an i1 is
\* compared with 0.0.
coerceCondition(g, condValue) ==
    IF condValue.type # "i1" THEN CreateBinary(g, "fcmp one", "i1", condValue, Zero)
    ELSE [g |-> g, value |-> condValue]

RECURSIVE visit(_, _)
RECURSIVE visitStatements(_, _)
RECURSIVE visitArguments(_, _, _)
RECURSIVE nextArgument(_, _, _)
RECURSIVE storeArguments(_, _, _, _)

\* The loops of visit(ProgramNode&) and visit(BlockNode&).
visitStatements(stmts, g) ==
    IF stmts = <<>> THEN g
    ELSE visitStatements(Tail(stmts), visit(Head(stmts), g))

\* A block that puts the symbol table back when it ends.
visitBlockScoped(node, g) ==
    Then(visitStatements(node.statements, g),
         LAMBDA g1 : [g1 EXCEPT !.cg.namedValues = g.cg.namedValues])

\* CodeGenerator::visit(BlockNode&)
visitBlock(node, g) == visitStatements(node.statements, g)

\* node->accept(*this) for a node that may be null.
visitOptional(node, g) == IF node # Null THEN visit(node, g) ELSE g

\* if (!builder->GetInsertBlock()->getTerminator()) builder->CreateBr(dest)
closeBlock(g, dest) ==
    IF Live(g) /\ ~getTerminator(g.cg, g.cg.insertBlock) THEN CreateBr(g, dest) ELSE g

\* The binary operation of generateBinaryOp on the operand values; the
\* returned value is left in currentValue.
emitBinaryOp(node, left, right, g) ==
    IF IsNull(left) \/ IsNull(right) THEN setCurrentValue(g, NullValue)
    ELSE CASE node.operation = "Add" ->
                setResult(CreateBinary(g, "fadd", "double", left, right))
           [] node.operation = "Subtract" ->
                setResult(CreateBinary(g, "fsub", "double", left, right))
           [] node.operation = "Multiply" ->
                setResult(CreateBinary(g, "fmul", "double", left, right))
           [] node.operation = "Divide" ->
                setResult(CreateBinary(g, "fdiv", "double", left, right))
           [] node.operation = "Assign" ->
                IF node.left.kind # "Identifier"
                THEN Diagnose(g, <<"Left side of assignment must be a variable">>)
                ELSE IF node.left.name \notin DOMAIN g.cg.namedValues
                     \/ IsNull(touch(g, node.left.name).cg.namedValues[node.left.name])
                THEN Diagnose(touch(g, node.left.name),
                              <<"Unknown variable: ", node.left.name>>)
                ELSE setCurrentValue(
                         CreateStore(g, right, g.cg.namedValues[node.left.name]), right)
           [] node.operation = "Equals" ->
                setResult(CreateBinary(g, "fcmp oeq", "i1", left, right))
           [] node.operation = "NotEquals" ->
                setResult(CreateBinary(g, "fcmp one", "i1", left, right))
           [] node.operation = "Greater" ->
                setResult(CreateBinary(g, "fcmp ogt", "i1", left, right))
           [] node.operation = "Less" ->
                setResult(CreateBinary(g, "fcmp olt", "i1", left, right))

\* CodeGenerator::generateBinaryOp and visit(BinaryOpNode&)
generateBinaryOp(node, g) ==
    Then(visit(node.left, g),
         LAMBDA g1 :
           Then(visit(node.right, g1),
                LAMBDA g2 :
                  emitBinaryOp(node, g1.cg.currentValue, g2.cg.currentValue, g2)))

\* visit(VariableDeclarationNode&) after the initial value is generated.
declareVariable(node, g) ==
    IF g.cg.insertBlock = 0 THEN Fault(g)   \* GetInsertBlock()->getParent()
    ELSE LET function == g.cg.blocks[g.cg.insertBlock].parent
             entry == g.cg.functions[function].blocks[1]
             alloca == InstValue("ptr", g.cg.nextId)
         IN  IF IsNull(g.cg.currentValue)
             THEN Fault(CreateAllocaAtBegin(g, entry))   \* CreateStore(nullptr, alloca)
             ELSE bind(CreateStore(CreateAllocaAtBegin(g, entry), g.cg.currentValue, alloca),
                       node.name, alloca)

\* CodeGenerator::visit(VariableDeclarationNode&)
visitVariableDeclaration(node, g) ==
    IF node.initialValue = Null THEN g
    ELSE Then(visit(node.initialValue, g), LAMBDA g1 : declareVariable(node, g1))

\* CodeGenerator::visit(IdentifierNode&)
visitIdentifier(node, g) ==
    IF node.name \notin DOMAIN g.cg.namedValues \/ IsNull(g.cg.namedValues[node.name])
    THEN Diagnose(touch(g, node.name), <<"Unknown variable: ", node.name>>)
    ELSE setCurrentValue(Create(g, "load", "double", <<g.cg.namedValues[node.name]>>, <<>>, 0),
                         InstValue("double", g.cg.nextId))

\* CodeGenerator::visit(StringNode&)
visitString(node, g) ==
    IF g.cg.insertBlock = 0 THEN Fault(g)   \* CreateGlobalStringPtr: the block's module
    ELSE setCurrentValue(g, StringPtr(node.value))

RECURSIVE argumentNames(_, _)
\* The names Argument::setName leaves on the arguments: a parameter name
\* already taken by an earlier argument gets a number appended.
argumentNames(params, names) ==
    IF Len(names) = Len(params) THEN names
    ELSE IF params[Len(names) + 1] \notin {names[i] : i \in 1..Len(names)}
    THEN argumentNames(params, Append(names, params[Len(names) + 1]))
    ELSE argumentNames(params,
             Append(names, uniqueName(params[Len(names) + 1],
                                      {names[i] : i \in 1..Len(names)}, 1)))

\* The argument loop of visit(FunctionNode&), from argument i on: an alloca
\* and a store for the argument, bound under the argument's name.
storeArguments(g, f, names, i) ==
    IF i > Len(names) THEN g
    ELSE storeArguments(
             bind(CreateStore(CreateAlloca(g), ArgValue(f, i), InstValue("ptr", g.cg.nextId)),
                  names[i], InstValue("ptr", g.cg.nextId)),
             f, names, i + 1)

\* Function::Create: the function is added to the module; a name already in
\* the module is made unique.
createFunction(g, n, params) ==
    IF getFunction(g.cg, n) = 0
    THEN [g EXCEPT !.cg.functions = Append(@, Function(n, argumentNames(params, <<>>), "double"))]
    ELSE [g EXCEPT !.cg.functions =
              Append(@, Function(uniqueName(n \o <<".">>,
                                            {g.cg.functions[i].name : i \in 1..Len(g.cg.functions)},
                                            1),
                                 argumentNames(params, <<>>), "double"))]

\* A symbol table put back only when the body ended in a terminator.
finishFunctionKeep(g, oldNamedValues) ==
    IF ~Live(g) THEN g
    ELSE IF ~getTerminator(g.cg, g.cg.insertBlock)
    THEN CreateRet(g, Zero)
    ELSE [g EXCEPT !.cg.namedValues = oldNamedValues]

\* The end of visit(FunctionNode&): a return is added if the insertion block
\* has no terminator, and the old symbol table is put back.
finishFunction(g, oldNamedValues) ==
    IF ~Live(g) THEN g
    ELSE IF ~getTerminator(g.cg, g.cg.insertBlock)
    THEN [CreateRet(g, Zero) EXCEPT !.cg.namedValues = oldNamedValues]
    ELSE [g EXCEPT !.cg.namedValues = oldNamedValues]

\* visit(FunctionNode&) from the entry block on; f is the new function.
functionBody(node, g, f, oldNamedValues) ==
    finishFunction(
        visitOptional(node.body,
            storeArguments(
                [SetInsertPoint(CreateBlock(g, "entry", f), Len(g.cg.blocks) + 1)
                    EXCEPT !.cg.namedValues = <<>>],
                f, g.cg.functions[f].params, 1)),
        oldNamedValues)

\* CodeGenerator::visit(FunctionNode&)
visitFunction(node, g) ==
    functionBody(node, createFunction(g, node.name, node.parameters),
                 Len(g.cg.functions) + 1, g.cg.namedValues)

\* The argument loop of visit(CallNode&): the result's argsV are the values.
visitArguments(args, g, argsV) ==
    IF args = <<>> THEN [g |-> g, argsV |-> argsV]
    ELSE nextArgument(Tail(args), visit(Head(args), g), argsV)

\* argsV.push_back(currentValue), and on to the next argument.
nextArgument(args, g, argsV) == visitArguments(args, g, Append(argsV, g.cg.currentValue))

\* builder->CreateCall(calleeF, argsV, "calltmp") of visit(CallNode&).
createCall(calleeF, a) ==
    setCurrentValue(
        Create(a.g, "call", a.g.cg.functions[calleeF].ret, a.argsV, <<>>, calleeF),
        InstValue(a.g.cg.functions[calleeF].ret, a.g.cg.nextId))

\* The checks of visit(CallNode&) made after the arguments are generated.
checkCallAfter(node, a) ==
    IF getFunction(a.g.cg, node.callee) = 0
    THEN Diagnose(a.g, <<"Unknown function: ", node.callee>>)
    ELSE IF Len(a.g.cg.functions[getFunction(a.g.cg, node.callee)].params) # Len(node.arguments)
    THEN Diagnose(a.g, <<"Incorrect number of arguments for function ", node.callee>>)
    ELSE createCall(getFunction(a.g.cg, node.callee), a)

\* A call that generates its arguments before it looks at the callee.
visitCallEager(node, g) == checkCallAfter(node, visitArguments(node.arguments, g, <<>>))

\* CodeGenerator::visit(CallNode&)
visitCall(node, g) ==
    IF getFunction(g.cg, node.callee) = 0
    THEN Diagnose(g, <<"Unknown function: ", node.callee>>)
    ELSE IF Len(g.cg.functions[getFunction(g.cg, node.callee)].params) # Len(node.arguments)
    THEN Diagnose(g, <<"Incorrect number of arguments for function ", node.callee>>)
    ELSE createCall(getFunction(g.cg, node.callee), visitArguments(node.arguments, g, <<>>))

\* visit(IfNode&) from the blocks on; c is the generator and the condition
\* value after the coercion.
ifBranches(node, c) ==
    IF ~Live(c.g) THEN c.g
    ELSE IF c.g.cg.insertBlock = 0 THEN Fault(c.g)   \* GetInsertBlock()->getParent()
    ELSE LET function == c.g.cg.blocks[c.g.cg.insertBlock].parent
             thenBB == Len(c.g.cg.blocks) + 1
             elseBB == Len(c.g.cg.blocks) + 2
             mergeBB == Len(c.g.cg.blocks) + 3
             g1 == CreateBlock(CreateBlock(CreateBlock(c.g, "then", function),
                                           "else", 0), "ifcont", 0)
             g2 == SetInsertPoint(CreateCondBr(g1, c.value, thenBB, elseBB), thenBB)
             g3 == closeBlock(visitOptional(node.thenBlock, g2), mergeBB)
             g4 == SetInsertPoint(insertInto(g3, elseBB, function), elseBB)
             g5 == closeBlock(visitOptional(node.elseBlock, g4), mergeBB)
         IN  SetInsertPoint(insertInto(g5, mergeBB, function), mergeBB)

\* CodeGenerator::visit(IfNode&)
visitIf(node, g) ==
    Then(visit(node.condition, g),
         LAMBDA g1 :
           IF IsNull(g1.cg.currentValue) THEN Fault(g1)   \* condValue->getType()
           ELSE ifBranches(node, coerceCondition(g1, g1.cg.currentValue)))

\* visit(WhileNode&) from the conditional branch on; c is the generator and
\* the condition value after the coercion.
whileBody(node, c, function, condBB, loopBB, afterBB) ==
    IF ~Live(c.g) THEN c.g
    ELSE LET g1 == CreateCondBr(c.g, c.value, loopBB, afterBB)
             g2 == SetInsertPoint(insertInto(g1, loopBB, function), loopBB)
             g3 == closeBlock(visitOptional(node.body, g2), condBB)
         IN  SetInsertPoint(insertInto(g3, afterBB, function), afterBB)

\* CodeGenerator::visit(WhileNode&)
visitWhile(node, g) ==
    IF g.cg.insertBlock = 0 THEN Fault(g)   \* GetInsertBlock()->getParent()
    ELSE LET function == g.cg.blocks[g.cg.insertBlock].parent
             condBB == Len(g.cg.blocks) + 1
             loopBB == Len(g.cg.blocks) + 2
             afterBB == Len(g.cg.blocks) + 3
             g1 == CreateBlock(CreateBlock(CreateBlock(g, "loopcond", function),
                                           "loop", 0), "afterloop", 0)
             g2 == SetInsertPoint(CreateBr(g1, condBB), condBB)
         IN  Then(visit(node.condition, g2),
                  LAMBDA g3 :
                    IF IsNull(g3.cg.currentValue) THEN Fault(g3)   \* condValue->getType()
                    ELSE whileBody(node, coerceCondition(g3, g3.cg.currentValue),
                                   function, condBB, loopBB, afterBB))

\* visit(PrintNode&) after the expression is generated.
emitPrint(g) ==
    IF IsNull(g.cg.currentValue) THEN Fault(g)   \* currentValue->getType()
    ELSE IF g.cg.currentValue.type = "ptr"
    THEN Create(g, "call", "void", <<g.cg.currentValue>>, <<>>, getFunction(g.cg, printString))
    ELSE Create(g, "call", "void", <<g.cg.currentValue>>, <<>>, getFunction(g.cg, printDouble))

\* CodeGenerator::visit(PrintNode&)
visitPrint(node, g) ==
    IF node.expression = Null THEN g
    ELSE Then(visit(node.expression, g), LAMBDA g1 : emitPrint(g1))

\* CodeGenerator::visit(ReturnNode&)
visitReturn(node, g) ==
    IF node.value # Null
    THEN Then(visit(node.value, g), LAMBDA g1 : CreateRet(g1, g1.cg.currentValue))
    ELSE CreateRet(g, Zero)

\* ASTNode::accept: the visit routine of the node's variant (ast.cpp).
visit(node, g) ==
    IF ~Live(g) THEN g
    ELSE CASE node.kind = "Block" -> visitBlock(node, g)
           [] node.kind = "VariableDeclaration" -> visitVariableDeclaration(node, g)
           [] node.kind = "BinaryOp" -> generateBinaryOp(node, g)
           [] node.kind = "Number" -> setCurrentValue(g, ConstantFP(node.value))
           [] node.kind = "String" -> visitString(node, g)
           [] node.kind = "Identifier" -> visitIdentifier(node, g)
           [] node.kind = "Function" -> visitFunction(node, g)
           [] node.kind = "Call" -> visitCall(node, g)
           [] node.kind = "If" -> visitIf(node, g)
           [] node.kind = "While" -> visitWhile(node, g)
           [] node.kind = "Print" -> visitPrint(node, g)
           [] node.kind = "Return" -> visitReturn(node, g)

\* CodeGenerator::visit(ProgramNode&), the loop: one top-level statement.
GenerateStep ==
    /\ pc = "gen"
    /\ stmt < Len(program)
    /\ \E g \in {visit(program[stmt + 1], [cg |-> codegen, cerr |-> cerr, ub |-> ub]) :
                   ub \in UBOutcomes} :
           /\ codegen' = g.cg
           /\ cerr' = g.cerr
           /\ pc' = IF g.cg.fault = "none" THEN "gen" ELSE "fault"
    /\ stmt' = stmt + 1
    /\ UNCHANGED <<source, lexer, tokens, parser, program, argv, files>>

\* CodeGenerator::visit(ProgramNode&), after the loop: generate() returns.
GenerateEnd ==
    /\ pc = "gen"
    /\ stmt = Len(program)
    /\ pc' = "done"
    /\ UNCHANGED <<source, lexer, tokens, parser, program, cerr, codegen, stmt, argv, files>>

\* Parser::parseProgram, after the loop: the program is returned to main(),
\* which constructs the CodeGenerator and calls generate(ast).
ParseProgramEnd ==
    /\ pc = "parse"
    /\ currentToken(parser.tokens, parser.position).type = "END_OF_FILE"
    /\ pc' = "gen"
    /\ codegen' = CodeGeneratorInit
    /\ stmt' = 0
    /\ UNCHANGED <<source, lexer, tokens, parser, program, cerr, argv, files>>

---------------------------------------------------------------------------
(* Inputs of the parser specification: token lists handed to Parser::Parser. *)

\* The token kind and lexeme of a word, as Lexer::identifier classifies it.
Word(w) == [type |-> IF keywords(w) # "" THEN keywords(w) ELSE "IDENTIFIER", value |-> w]

wPlus == Word(<<"p","l","u","s">>)
wMinus == Word(<<"m","i","n","u","s">>)
wTimes == Word(<<"t","i","m","e","s">>)
wDivided == Word(<<"d","i","v","i","d","e","d">>)
wIs == Word(<<"i","s">>)
wEquals == Word(<<"e","q","u","a","l","s">>)
wNot == Word(<<"n","o","t">>)
wGreater == Word(<<"g","r","e","a","t","e","r">>)
wLess == Word(<<"l","e","s","s">>)
wThan == Word(GlueThan)
wBy == Word(GlueBy)
wA == Word(<<"a">>)
wOne == [type |-> "NUMBER", value |-> <<"1">>]

\* The token list of a sequence of words, all on line 1, closed by END_OF_FILE.
MkTokens(words) ==
    [i \in 1..Len(words) |-> Token(words[i].type, words[i].value, 1, i)]
        \o <<Token("END_OF_FILE", <<>>, 1, Len(words) + 1)>>

Operands == {wOne, wA, wThan}

\* An operator word, alone or followed by a glue word.
OpWords == {<<wPlus>>, <<wMinus>>, <<wTimes>>, <<wDivided>>, <<wDivided, wBy>>,
            <<wIs>>, <<wEquals>>, <<wNot>>, <<wGreater>>, <<wGreater, wThan>>,
            <<wLess>>, <<wLess, wThan>>}

MaxOps == 2

RECURSIVE ExprWords(_, _, _)
\* The word sequence os[1] ops[1] os[2] ... ops[k] os[k+1].
ExprWords(os, ops, k) ==
    IF k = 0 THEN <<os[1]>>
    ELSE ExprWords(os, ops, k - 1) \o ops[k] \o <<os[k + 1]>>

\* The identifier by as an operand of divided.
ByWords == {<<wA, wDivided, wBy>>, <<wA, wDivided, wBy, wBy>>}

\* The keyword not where an expression starts: at the start of a statement or
\* after another operator.
PrefixNotWords ==
    {<<wNot, x>> : x \in Operands}
        \cup {<<x, o, wNot, y>> : x \in Operands, o \in {wPlus, wTimes, wIs, wEquals},
                                 y \in Operands}

ParseInit ==
    /\ \/ \E k \in 0..MaxOps :
            \E os \in [1..(k + 1) -> Operands] :
              \E ops \in [1..k -> OpWords] :
                tokens = MkTokens(ExprWords(os, ops, k))
       \/ \E w \in ByWords \cup PrefixNotWords : tokens = MkTokens(w)
    /\ parser = ParserInit(tokens)
    /\ pc = "parse"
    /\ source = <<>>
    /\ lexer = LexerInit(<<>>)
    /\ program = <<>>
    /\ cerr = <<>>
    /\ codegen = NoCodegen
    /\ stmt = 0
    /\ argv = NoArgs
    /\ files = NoFiles

ParseNext == ParseProgramStep \/ ParseProgramEnd

SpecParse == ParseInit /\ [][ParseNext]_vars

\* Token lists of statements and of broken statements: every list of at most
\* MaxTokens of these tokens, closed by END_OF_FILE.
MaxTokens == 4

wPrint == Word(<<"p","r","i","n","t">>)
wIf == Word(<<"i","f">>)
wFunction == Word(<<"f","u","n","c","t","i","o","n">>)
wEOL == [type |-> "EOL", value |-> <<NL>>]
wLeftParen == [type |-> "LEFT_PAREN", value |-> <<"(">>]
wRightParen == [type |-> "RIGHT_PAREN", value |-> <<")">>]
wLeftBrace == [type |-> "LEFT_BRACE", value |-> <<"{">>]
wRightBrace == [type |-> "RIGHT_BRACE", value |-> <<"}">>]

StatementWords ==
    {wPrint, wIf, wFunction, wOne, wA, wPlus, wEOL, wLeftParen, wRightParen, wLeftBrace,
     wRightBrace}

TokensInit ==
    /\ \E w \in SeqsUpTo(StatementWords, MaxTokens) : tokens = MkTokens(w)
    /\ parser = ParserInit(tokens)
    /\ pc = "parse"
    /\ source = <<>>
    /\ lexer = LexerInit(<<>>)
    /\ program = <<>>
    /\ cerr = <<>>
    /\ codegen = NoCodegen
    /\ stmt = 0
    /\ argv = NoArgs
    /\ files = NoFiles

SpecTokens == TokensInit /\ [][ParseNext]_vars

---------------------------------------------------------------------------
(* The parser's claims *)

\* The node parsePrimary builds for a one-token operand.
OperandNode(w) ==
    IF w.type = "NUMBER" THEN NumberNode(stod(w.value)) ELSE IdentifierNode(w.value)

IsOperand(w) == w.type \in {"NUMBER", "IDENTIFIER"}

\* The words of a token list: its tokens but the closing END_OF_FILE, without
\* their positions.
WordsOf(toks) ==
    [i \in 1..(Len(toks) - 1) |-> [type |-> toks[i].type, value |-> toks[i].value]]

Parsed == pc # "parse" /\ pc # "lex"

\* Three one-token operands joined by the operator words o1 and o2.
IsChain(w, o1, o2) ==
    /\ Len(w) = 5
    /\ IsOperand(w[1]) /\ IsOperand(w[3]) /\ IsOperand(w[5])
    /\ w[2] = o1 /\ w[4] = o2

\* C8: multiplicative operators bind tighter than additive ones and both are
\* left-associative: for all one-token operands x, y, z the parse of
\* "x plus y times z" is Add(x, Mul(y, z)), of "x times y plus z" is
\* Add(Mul(x, y), z) and of "x minus y minus z" is Sub(Sub(x, y), z), with no
\* diagnostic.
C8_Precedence ==
    Parsed =>
      LET w == WordsOf(parser.tokens)
          X == OperandNode(w[1])
          Y == OperandNode(w[3])
          Z == OperandNode(w[5])
      IN  /\ IsChain(w, wPlus, wTimes) =>
               /\ program = <<BinaryOpNode("Add", X, BinaryOpNode("Multiply", Y, Z))>>
               /\ cerr = <<>>
          /\ IsChain(w, wTimes, wPlus) =>
               /\ program = <<BinaryOpNode("Add", BinaryOpNode("Multiply", X, Y), Z)>>
               /\ cerr = <<>>
          /\ IsChain(w, wMinus, wMinus) =>
               /\ program = <<BinaryOpNode("Subtract", BinaryOpNode("Subtract", X, Y), Z)>>
               /\ cerr = <<>>

\* C8's case: "1 plus a times 1" has been parsed.
C8_Witness ==
    /\ Parsed
    /\ parser.tokens = MkTokens(<<wOne, wPlus, wA, wTimes, wOne>>)
    /\ Len(program) = 1

\* C9 as claimed: the parse of "x is y is z" is Assign(x, Assign(y, z)), for
\* all one-token operands x, y, z.
C9_AssignChainRight ==
    Parsed =>
      LET w == WordsOf(parser.tokens) IN
      IsChain(w, wIs, wIs) =>
        program = <<BinaryOpNode("Assign", OperandNode(w[1]),
                                 BinaryOpNode("Assign", OperandNode(w[3]), OperandNode(w[5])))>>

\* C9 as amended: the parse of "x is y is z" is Assign(Assign(x, y), z): a
\* chain of assignments nests to the left, so the left operand of the outer
\* Assign is an Assign and not an Identifier.
C9_AssignChainLeft ==
    Parsed =>
      LET w == WordsOf(parser.tokens) IN
      IsChain(w, wIs, wIs) =>
        /\ program = <<BinaryOpNode("Assign",
                                    BinaryOpNode("Assign", OperandNode(w[1]), OperandNode(w[3])),
                                    OperandNode(w[5]))>>
        /\ program[1].left.kind # "Identifier"
        /\ cerr = <<>>

\* C9's case: "a is a is 1" has been parsed.
C9_Witness ==
    /\ Parsed
    /\ parser.tokens = MkTokens(<<wA, wIs, wA, wIs, wOne>>)
    /\ Len(program) = 1

\* The glue word of the operator keywords greater, less and divided, and the
\* BinaryOp each builds.
GlueOf(kw) == IF kw = wDivided THEN wBy ELSE wThan
GlueOp(kw) == CASE kw = wGreater -> "Greater" [] kw = wLess -> "Less" [] OTHER -> "Divide"

\* The words are "a kw b" or "a kw glue b", for one-token operands a and b
\* and an operator keyword kw that takes a glue word.
IsGlueInput(w) ==
    /\ Len(w) \in {3, 4}
    /\ IsOperand(w[1]) /\ IsOperand(w[Len(w)])
    /\ w[2] \in {wGreater, wLess, wDivided}
    /\ Len(w) = 4 => w[3] = GlueOf(w[2])

\* The input parsed to the single statement op(a, b).
GlueAbsorbed(w) ==
    /\ program = <<BinaryOpNode(GlueOp(w[2]), OperandNode(w[1]), OperandNode(w[Len(w)]))>>
    /\ cerr = <<>>

IsPrefixNot(w) ==
    \/ Len(w) = 2 /\ w[1] = wNot /\ IsOperand(w[2])
    \/ Len(w) = 4 /\ IsOperand(w[1]) /\ w[2] \in {wPlus, wTimes, wIs, wEquals}
                  /\ w[3] = wNot /\ IsOperand(w[4])

\* C11: the word not between two operands is the not-equals comparator:
\* "a not b" parses without diagnostic to NotEquals(a, b); it has the precedence
\* of equals (the two chain to the left with each other and both bind looser
\* than plus); and not where an expression starts is a parse error that leaves
\* no statement.
C11_NotIsNotEquals ==
    Parsed =>
      LET w == WordsOf(parser.tokens)
          X == OperandNode(w[1])
          Y == OperandNode(w[3])
          Z == OperandNode(w[5])
      IN  /\ (Len(w) = 3 /\ IsOperand(w[1]) /\ w[2] = wNot /\ IsOperand(w[3])) =>
               /\ program = <<BinaryOpNode("NotEquals", X, Y)>>
               /\ cerr = <<>>
          /\ IsChain(w, wNot, wEquals) =>
               /\ program = <<BinaryOpNode("Equals", BinaryOpNode("NotEquals", X, Y), Z)>>
               /\ cerr = <<>>
          /\ IsChain(w, wEquals, wNot) =>
               /\ program = <<BinaryOpNode("NotEquals", BinaryOpNode("Equals", X, Y), Z)>>
               /\ cerr = <<>>
          /\ IsChain(w, wNot, wPlus) =>
               /\ program = <<BinaryOpNode("NotEquals", X, BinaryOpNode("Add", Y, Z))>>
               /\ cerr = <<>>
          /\ IsChain(w, wPlus, wNot) =>
               /\ program = <<BinaryOpNode("NotEquals", BinaryOpNode("Add", X, Y), Z)>>
               /\ cerr = <<>>
          /\ IsPrefixNot(w) =>
               /\ program = <<>>
               /\ Len(cerr) = 1
               /\ cerr[1].from = "Parser"

\* C11's case: "a not 1" has been parsed to NotEquals(a, 1).
C11_Witness ==
    /\ Parsed
    /\ parser.tokens = MkTokens(<<wA, wNot, wOne>>)
    /\ program = <<BinaryOpNode("NotEquals", IdentifierNode(<<"a">>), NumberNode(stod(<<"1">>)))>>

\* C13: parse() terminates on every token list, with or without parse errors:
\* every iteration of parseProgram, a recovery included, moves the cursor
\* forward and the cursor never passes the closing END_OF_FILE; the statements
\* are in source order, each iteration adding at most one statement at the end
\* of the Program while the cursor moves on; and when parse() has returned
\* the cursor is on the END_OF_FILE token.
C13_ParseTotal ==
    /\ [](pc = "parse" => parser.position + 1 <= Len(parser.tokens))
    /\ [][pc = "parse" /\ pc' = "parse" =>
            /\ parser'.position > parser.position
            /\ \/ program' = program
               \/ /\ Len(program') = Len(program) + 1
                  /\ SubSeq(program', 1, Len(program)) = program
            /\ SubSeq(cerr', 1, Len(cerr)) = cerr]_vars
    /\ [](Parsed => /\ parser.position + 1 = Len(parser.tokens)
                    /\ parser.tokens[parser.position + 1].type = "END_OF_FILE"
                    /\ Len(program) + Len(cerr) <= Len(parser.tokens))

\* C13's case: parse() has returned for "a ) <newline> a": a statement, a parse
\* error with its recovery, and a second statement.
C13_Witness ==
    /\ Parsed
    /\ parser.tokens = MkTokens(<<wA, wRightParen, wEOL, wA>>)
    /\ Len(program) = 2
    /\ Len(cerr) = 1

---------------------------------------------------------------------------
(* The whole run of main(): a program text is tokenized, parsed and lowered. *)

\* `var x is 40 plus 2\nprint x`
Scenario1 ==
    <<"v", "a", "r", SP, "x", SP, "i", "s", SP, "4", "0", SP, "p", "l", "u", "s", SP, "2",
      NL, "p", "r", "i", "n", "t", SP, "x">>

\* `var x is 5\nif x greater than 3 { print 1 } else { print 0 }`
Scenario2 ==
    <<"v", "a", "r", SP, "x", SP, "i", "s", SP, "5", NL, "i", "f", SP, "x", SP, "g", "r",
      "e", "a", "t", "e", "r", SP, "t", "h", "a", "n", SP, "3", SP, "{", SP, "p", "r", "i",
      "n", "t", SP, "1", SP, "}", SP, "e", "l", "s", "e", SP, "{", SP, "p", "r", "i", "n",
      "t", SP, "0", SP, "}">>

\* `var i is 0\nwhile i less than 3 { print i\n i is i plus 1 }`
Scenario3 ==
    <<"v", "a", "r", SP, "i", SP, "i", "s", SP, "0", NL, "w", "h", "i", "l", "e", SP, "i",
      SP, "l", "e", "s", "s", SP, "t", "h", "a", "n", SP, "3", SP, "{", SP, "p", "r", "i",
      "n", "t", SP, "i", NL, SP, "i", SP, "i", "s", SP, "i", SP, "p", "l", "u", "s", SP,
      "1", SP, "}">>

\* `function add(a, b) { return a plus b }\nprint add(2, 3)`
Scenario4 ==
    <<"f", "u", "n", "c", "t", "i", "o", "n", SP, "a", "d", "d", "(", "a", ",", SP, "b",
      ")", SP, "{", SP, "r", "e", "t", "u", "r", "n", SP, "a", SP, "p", "l", "u", "s", SP,
      "b", SP, "}", NL, "p", "r", "i", "n", "t", SP, "a", "d", "d", "(", "2", ",", SP, "3",
      ")">>

\* `print "hello"`
Scenario5 ==
    <<"p", "r", "i", "n", "t", SP, QUOTE, "h", "e", "l", "l", "o", QUOTE>>

\* `var x is 1\nif x equals 1 { print "yes" }`
Scenario6 ==
    <<"v", "a", "r", SP, "x", SP, "i", "s", SP, "1", NL, "i", "f", SP, "x", SP, "e", "q",
      "u", "a", "l", "s", SP, "1", SP, "{", SP, "p", "r", "i", "n", "t", SP, QUOTE, "y",
      "e", "s", QUOTE, SP, "}">>

\* `print y`
Negative2 ==
    <<"p", "r", "i", "n", "t", SP, "y">>

\* `var x is`
BadVar ==
    <<"v", "a", "r", SP, "x", SP, "i", "s">>

\* `print )`
BadPrint ==
    <<"p", "r", "i", "n", "t", SP, ")">>

\* `print 1`
GoodPrint ==
    <<"p", "r", "i", "n", "t", SP, "1">>

\* `var y is 1\nprint y`
GoodTwo ==
    <<"v", "a", "r", SP, "y", SP, "i", "s", SP, "1", NL, "p", "r", "i", "n", "t", SP, "y">>

\* `function f(x) { if x greater than 3 { print 1 } else { print "no" } }\nf(5)`
InFunctionIf ==
    <<"f", "u", "n", "c", "t", "i", "o", "n", SP, "f", "(", "x", ")", SP, "{", SP, "i",
      "f", SP, "x", SP, "g", "r", "e", "a", "t", "e", "r", SP, "t", "h", "a", "n", SP, "3",
      SP, "{", SP, "p", "r", "i", "n", "t", SP, "1", SP, "}", SP, "e", "l", "s", "e", SP,
      "{", SP, "p", "r", "i", "n", "t", SP, QUOTE, "n", "o", QUOTE, SP, "}", SP, "}", NL,
      "f", "(", "5", ")">>

\* `function g() { var i is 0\nwhile i less than 3 { print i\n i is i plus 1 }\nreturn i }\nprint g()`
InFunctionWhile ==
    <<"f", "u", "n", "c", "t", "i", "o", "n", SP, "g", "(", ")", SP, "{", SP, "v", "a",
      "r", SP, "i", SP, "i", "s", SP, "0", NL, "w", "h", "i", "l", "e", SP, "i", SP, "l",
      "e", "s", "s", SP, "t", "h", "a", "n", SP, "3", SP, "{", SP, "p", "r", "i", "n", "t",
      SP, "i", NL, SP, "i", SP, "i", "s", SP, "i", SP, "p", "l", "u", "s", SP, "1", SP,
      "}", NL, "r", "e", "t", "u", "r", "n", SP, "i", SP, "}", NL, "p", "r", "i", "n", "t",
      SP, "g", "(", ")">>

\* `function f() { return }`
ReturnEmpty ==
    <<"f", "u", "n", "c", "t", "i", "o", "n", SP, "f", "(", ")", SP, "{", SP, "r", "e",
      "t", "u", "r", "n", SP, "}">>

\* `function f() { print y }`
UnknownInPrint ==
    <<"f", "u", "n", "c", "t", "i", "o", "n", SP, "f", "(", ")", SP, "{", SP, "p", "r",
      "i", "n", "t", SP, "y", SP, "}">>

\* `function f() { var x is y }`
UnknownInInitializer ==
    <<"f", "u", "n", "c", "t", "i", "o", "n", SP, "f", "(", ")", SP, "{", SP, "v", "a",
      "r", SP, "x", SP, "i", "s", SP, "y", SP, "}">>

\* `function f() { if y { print 1 } }`
UnknownInIf ==
    <<"f", "u", "n", "c", "t", "i", "o", "n", SP, "f", "(", ")", SP, "{", SP, "i", "f",
      SP, "y", SP, "{", SP, "p", "r", "i", "n", "t", SP, "1", SP, "}", SP, "}">>

\* `function f() { while y { print 1 } }`
UnknownInWhile ==
    <<"f", "u", "n", "c", "t", "i", "o", "n", SP, "f", "(", ")", SP, "{", SP, "w", "h",
      "i", "l", "e", SP, "y", SP, "{", SP, "p", "r", "i", "n", "t", SP, "1", SP, "}", SP,
      "}">>

\* `function f() { return y }`
UnknownInReturn ==
    <<"f", "u", "n", "c", "t", "i", "o", "n", SP, "f", "(", ")", SP, "{", SP, "r", "e",
      "t", "u", "r", "n", SP, "y", SP, "}">>

\* `function f(a) { f(y) }`
UnknownInCall ==
    <<"f", "u", "n", "c", "t", "i", "o", "n", SP, "f", "(", "a", ")", SP, "{", SP, "f",
      "(", "y", ")", SP, "}">>

\* Programs that use the variable y, which is never declared, one for each
\* consumer of an expression's value.
UnknownVariableCases ==
    {Negative2, UnknownInPrint, UnknownInInitializer, UnknownInIf, UnknownInWhile,
     UnknownInReturn, UnknownInCall}

\* Conditions of an if or a while inside `function f(x)`.
Conditions ==
    {<<"x">>,
     <<"1">>,
     <<"x", SP, "p", "l", "u", "s", SP, "1">>,
     <<"x", SP, "i", "s", SP, "1">>,
     <<"x", SP, "i", "s", SP, "x">>,
     <<"f", "(", "x", ")">>,
     <<"x", SP, "e", "q", "u", "a", "l", "s", SP, "1">>,
     <<"x", SP, "n", "o", "t", SP, "1">>,
     <<"x", SP, "n", "o", "t", SP, "0">>,
     <<"x", SP, "g", "r", "e", "a", "t", "e", "r", SP, "t", "h", "a", "n", SP, "1">>,
     <<"x", SP, "l", "e", "s", "s", SP, "x">>,
     <<"x", SP, "e", "q", "u", "a", "l", "s", SP, "1", SP, "e", "q", "u", "a", "l", "s",
       SP, "x">>}

\* `function f(x) { if `
IfHead ==
    <<"f", "u", "n", "c", "t", "i", "o", "n", SP, "f", "(", "x", ")", SP, "{", SP, "i",
      "f", SP>>

\* `function f(x) { while `
WhileHead ==
    <<"f", "u", "n", "c", "t", "i", "o", "n", SP, "f", "(", "x", ")", SP, "{", SP, "w",
      "h", "i", "l", "e", SP>>

\* ` { print 1 } }`
ConditionTail ==
    <<SP, "{", SP, "p", "r", "i", "n", "t", SP, "1", SP, "}", SP, "}">>

\* `function f(x) { if c { print 1 } }` and the same with while, for every
\* condition c.
ConditionPrograms ==
    {h \o c \o ConditionTail : h \in {IfHead, WhileHead}, c \in Conditions}

\* `function f() { return 1\nprint 2 }`
AfterReturn ==
    <<"f", "u", "n", "c", "t", "i", "o", "n", SP, "f", "(", ")", SP, "{", SP, "r", "e",
      "t", "u", "r", "n", SP, "1", NL, "p", "r", "i", "n", "t", SP, "2", SP, "}">>

\* `function f() { function g() { } }`
NestedFunction ==
    <<"f", "u", "n", "c", "t", "i", "o", "n", SP, "f", "(", ")", SP, "{", SP, "f", "u",
      "n", "c", "t", "i", "o", "n", SP, "g", "(", ")", SP, "{", SP, "}", SP, "}">>

\* `function f(x) { if x { return 1 } else { return 2 } }`
ReturnInIf ==
    <<"f", "u", "n", "c", "t", "i", "o", "n", SP, "f", "(", "x", ")", SP, "{", SP, "i",
      "f", SP, "x", SP, "{", SP, "r", "e", "t", "u", "r", "n", SP, "1", SP, "}", SP, "e",
      "l", "s", "e", SP, "{", SP, "r", "e", "t", "u", "r", "n", SP, "2", SP, "}", SP, "}">>

\* `function f(x) { while x { return 1 } }`
ReturnInWhile ==
    <<"f", "u", "n", "c", "t", "i", "o", "n", SP, "f", "(", "x", ")", SP, "{", SP, "w",
      "h", "i", "l", "e", SP, "x", SP, "{", SP, "r", "e", "t", "u", "r", "n", SP, "1", SP,
      "}", SP, "}">>

\* Function bodies with return, if, while and a nested function definition.
FunctionBodyCases == {AfterReturn, NestedFunction, ReturnInIf, ReturnInWhile}

\* `function f(a) { var x is 1 function g(b) { var y is 2 } print x print a }`
ScopeKept ==
    <<"f", "u", "n", "c", "t", "i", "o", "n", SP, "f", "(", "a", ")", SP, "{", SP, "v",
      "a", "r", SP, "x", SP, "i", "s", SP, "1", SP, "f", "u", "n", "c", "t", "i", "o",
      "n", SP, "g", "(", "b", ")", SP, "{", SP, "v", "a", "r", SP, "y", SP, "i", "s", SP,
      "2", SP, "}", SP, "p", "r", "i", "n", "t", SP, "x", SP, "p", "r", "i", "n", "t", SP,
      "a", SP, "}">>

\* `function f(a) { var x is 1 function g(b) { print x } }`
ScopeCleared ==
    <<"f", "u", "n", "c", "t", "i", "o", "n", SP, "f", "(", "a", ")", SP, "{", SP, "v",
      "a", "r", SP, "x", SP, "i", "s", SP, "1", SP, "f", "u", "n", "c", "t", "i", "o",
      "n", SP, "g", "(", "b", ")", SP, "{", SP, "p", "r", "i", "n", "t", SP, "x", SP, "}",
      SP, "}">>

\* `function f(a) { function g(b) { var y is 2 } print y }`
ScopeLocalGone ==
    <<"f", "u", "n", "c", "t", "i", "o", "n", SP, "f", "(", "a", ")", SP, "{", SP, "f",
      "u", "n", "c", "t", "i", "o", "n", SP, "g", "(", "b", ")", SP, "{", SP, "v", "a",
      "r", SP, "y", SP, "i", "s", SP, "2", SP, "}", SP, "p", "r", "i", "n", "t", SP, "y",
      SP, "}">>

\* `function f(a) { function g(b) { } print b }`
ScopeParameterGone ==
    <<"f", "u", "n", "c", "t", "i", "o", "n", SP, "f", "(", "a", ")", SP, "{", SP, "f",
      "u", "n", "c", "t", "i", "o", "n", SP, "g", "(", "b", ")", SP, "{", SP, "}", SP,
      "p", "r", "i", "n", "t", SP, "b", SP, "}">>

\* `function f(a) { var x is 1 }\nprint a`
ScopeTopLevel ==
    <<"f", "u", "n", "c", "t", "i", "o", "n", SP, "f", "(", "a", ")", SP, "{", SP, "v",
      "a", "r", SP, "x", SP, "i", "s", SP, "1", SP, "}", NL, "p", "r", "i", "n", "t", SP,
      "a">>

\* `y\nfunction f(y) { print y }\ny`
ScopeOuterEntry ==
    <<"y", NL, "f", "u", "n", "c", "t", "i", "o", "n", SP, "f", "(", "y", ")", SP, "{",
      SP, "p", "r", "i", "n", "t", SP, "y", SP, "}", NL, "y">>

\* Functions whose bodies bind names, with the name a later statement reads
\* and that the symbol table does not hold there (none for ScopeKept).
ScopeCases ==
    {[text |-> ScopeKept, unknown |-> <<>>],
     [text |-> ScopeCleared, unknown |-> <<<<"x">>>>],
     [text |-> ScopeLocalGone, unknown |-> <<<<"y">>>>],
     [text |-> ScopeParameterGone, unknown |-> <<<<"b">>>>],
     [text |-> ScopeTopLevel, unknown |-> <<<<"a">>>>],
     [text |-> ScopeOuterEntry, unknown |-> <<<<"y">>, <<"y">>>>]}

\* `function f(c) { if c { var x is 1 } print x x is 2 }`
BlockIf ==
    <<"f", "u", "n", "c", "t", "i", "o", "n", SP, "f", "(", "c", ")", SP, "{", SP, "i",
      "f", SP, "c", SP, "{", SP, "v", "a", "r", SP, "x", SP, "i", "s", SP, "1", SP, "}",
      SP, "p", "r", "i", "n", "t", SP, "x", SP, "x", SP, "i", "s", SP, "2", SP, "}">>

\* `function f(c) { if c { } else { var x is 1 } print x x is 2 }`
BlockElse ==
    <<"f", "u", "n", "c", "t", "i", "o", "n", SP, "f", "(", "c", ")", SP, "{", SP, "i",
      "f", SP, "c", SP, "{", SP, "}", SP, "e", "l", "s", "e", SP, "{", SP, "v", "a", "r",
      SP, "x", SP, "i", "s", SP, "1", SP, "}", SP, "p", "r", "i", "n", "t", SP, "x", SP,
      "x", SP, "i", "s", SP, "2", SP, "}">>

\* `function f(c) { while c { var x is 1 } print x x is 2 }`
BlockWhile ==
    <<"f", "u", "n", "c", "t", "i", "o", "n", SP, "f", "(", "c", ")", SP, "{", SP, "w",
      "h", "i", "l", "e", SP, "c", SP, "{", SP, "v", "a", "r", SP, "x", SP, "i", "s", SP,
      "1", SP, "}", SP, "p", "r", "i", "n", "t", SP, "x", SP, "x", SP, "i", "s", SP, "2",
      SP, "}">>

\* `function f(c) { { var x is 1 } print x x is 2 }`
BlockBare ==
    <<"f", "u", "n", "c", "t", "i", "o", "n", SP, "f", "(", "c", ")", SP, "{", SP, "{",
      SP, "v", "a", "r", SP, "x", SP, "i", "s", SP, "1", SP, "}", SP, "p", "r", "i", "n",
      "t", SP, "x", SP, "x", SP, "i", "s", SP, "2", SP, "}">>

\* A variable declared in the body of an if, an else, a while and a bare block,
\* read and assigned after the block.
BlockPrograms == {BlockIf, BlockElse, BlockWhile, BlockBare}

\* `function f(x) { var x is x plus 1 print x }`
SelfInitBound ==
    <<"f", "u", "n", "c", "t", "i", "o", "n", SP, "f", "(", "x", ")", SP, "{", SP, "v",
      "a", "r", SP, "x", SP, "i", "s", SP, "x", SP, "p", "l", "u", "s", SP, "1", SP, "p",
      "r", "i", "n", "t", SP, "x", SP, "}">>

\* `function f() { var x is x plus 1 print x }`
SelfInitUnbound ==
    <<"f", "u", "n", "c", "t", "i", "o", "n", SP, "f", "(", ")", SP, "{", SP, "v", "a",
      "r", SP, "x", SP, "i", "s", SP, "x", SP, "p", "l", "u", "s", SP, "1", SP, "p", "r",
      "i", "n", "t", SP, "x", SP, "}">>

\* A declaration whose initializer names the declared variable, with and
\* without an earlier binding of the name.
SelfInitPrograms == {SelfInitBound, SelfInitUnbound}

\* `function f(a) { g(a, y) }`
CallUnknown ==
    <<"f", "u", "n", "c", "t", "i", "o", "n", SP, "f", "(", "a", ")", SP, "{", SP, "g",
      "(", "a", ",", SP, "y", ")", SP, "}">>

\* `function f(a, b) { f(a) }`
CallTooFew ==
    <<"f", "u", "n", "c", "t", "i", "o", "n", SP, "f", "(", "a", ",", SP, "b", ")", SP,
      "{", SP, "f", "(", "a", ")", SP, "}">>

\* `function f(a) { f(a, y) }`
CallTooMany ==
    <<"f", "u", "n", "c", "t", "i", "o", "n", SP, "f", "(", "a", ")", SP, "{", SP, "f",
      "(", "a", ",", SP, "y", ")", SP, "}">>

\* `function f(a, b) { f(b, a) }`
CallOrder ==
    <<"f", "u", "n", "c", "t", "i", "o", "n", SP, "f", "(", "a", ",", SP, "b", ")", SP,
      "{", SP, "f", "(", "b", ",", SP, "a", ")", SP, "}">>

\* `function f(a, b) { f(f(a, b), b) }`
CallNested ==
    <<"f", "u", "n", "c", "t", "i", "o", "n", SP, "f", "(", "a", ",", SP, "b", ")", SP,
      "{", SP, "f", "(", "f", "(", "a", ",", SP, "b", ")", ",", SP, "b", ")", SP, "}">>

\* `function f(a, b) { f(y, z) }`
CallUnknownArguments ==
    <<"f", "u", "n", "c", "t", "i", "o", "n", SP, "f", "(", "a", ",", SP, "b", ")", SP,
      "{", SP, "f", "(", "y", ",", SP, "z", ")", SP, "}">>

\* Calls the generator rejects, with the diagnostic of each.
RejectedCalls ==
    {[text |-> CallUnknown, what |-> <<"Unknown function: ", <<"g">>>>],
     [text |-> CallTooFew, what |-> <<"Incorrect number of arguments for function ", <<"f">>>>],
     [text |-> CallTooMany, what |-> <<"Incorrect number of arguments for function ", <<"f">>>>]}

\* Calls the generator accepts.
AcceptedCalls == {CallOrder, CallNested, CallUnknownArguments}

\* `function f(x) { if x { if x { print 1 } } else { while x { print 2 } } }`
BranchNested ==
    <<"f", "u", "n", "c", "t", "i", "o", "n", SP, "f", "(", "x", ")", SP, "{", SP, "i",
      "f", SP, "x", SP, "{", SP, "i", "f", SP, "x", SP, "{", SP, "p", "r", "i", "n", "t",
      SP, "1", SP, "}", SP, "}", SP, "e", "l", "s", "e", SP, "{", SP, "w", "h", "i", "l",
      "e", SP, "x", SP, "{", SP, "p", "r", "i", "n", "t", SP, "2", SP, "}", SP, "}", SP,
      "}">>

\* `function f(x) { if x { function g() { } } }`
IfNestedFunction ==
    <<"f", "u", "n", "c", "t", "i", "o", "n", SP, "f", "(", "x", ")", SP, "{", SP, "i",
      "f", SP, "x", SP, "{", SP, "f", "u", "n", "c", "t", "i", "o", "n", SP, "g", "(",
      ")", SP, "{", SP, "}", SP, "}", SP, "}">>

\* `function f(x) { while x { function g() { } } }`
WhileNestedFunction ==
    <<"f", "u", "n", "c", "t", "i", "o", "n", SP, "f", "(", "x", ")", SP, "{", SP, "w",
      "h", "i", "l", "e", SP, "x", SP, "{", SP, "f", "u", "n", "c", "t", "i", "o", "n",
      SP, "g", "(", ")", SP, "{", SP, "}", SP, "}", SP, "}">>

\* Functions called f whose last statement is an if or a while.
BranchPrograms ==
    ConditionPrograms
        \cup {ReturnInIf, ReturnInWhile, BranchNested, IfNestedFunction, WhileNestedFunction}

\* `function f(a) { f(a) }`
Recursion ==
    <<"f", "u", "n", "c", "t", "i", "o", "n", SP, "f", "(", "a", ")", SP, "{", SP, "f",
      "(", "a", ")", SP, "}">>

\* `function f(a) { }\nfunction g(b) { f(b) }`
CallAfter ==
    <<"f", "u", "n", "c", "t", "i", "o", "n", SP, "f", "(", "a", ")", SP, "{", SP, "}",
      NL, "f", "u", "n", "c", "t", "i", "o", "n", SP, "g", "(", "b", ")", SP, "{", SP,
      "f", "(", "b", ")", SP, "}">>

\* `function f(a) { }\nf(1)`
CallAfterTopLevel ==
    <<"f", "u", "n", "c", "t", "i", "o", "n", SP, "f", "(", "a", ")", SP, "{", SP, "}",
      NL, "f", "(", "1", ")">>

\* `function g(b) { f(b) }\nfunction f(a) { }`
CallBefore ==
    <<"f", "u", "n", "c", "t", "i", "o", "n", SP, "g", "(", "b", ")", SP, "{", SP, "f",
      "(", "b", ")", SP, "}", NL, "f", "u", "n", "c", "t", "i", "o", "n", SP, "f", "(",
      "a", ")", SP, "{", SP, "}">>

\* `function f(a) { }\nfunction f(a) { f(a) }`
Redefinition ==
    <<"f", "u", "n", "c", "t", "i", "o", "n", SP, "f", "(", "a", ")", SP, "{", SP, "}",
      NL, "f", "u", "n", "c", "t", "i", "o", "n", SP, "f", "(", "a", ")", SP, "{", SP,
      "f", "(", "a", ")", SP, "}">>

\* `function printDouble(x) { printDouble(x) }`
ShadowsPrint ==
    <<"f", "u", "n", "c", "t", "i", "o", "n", SP, "p", "r", "i", "n", "t", "D", "o", "u",
      "b", "l", "e", "(", "x", ")", SP, "{", SP, "p", "r", "i", "n", "t", "D", "o", "u",
      "b", "l", "e", "(", "x", ")", SP, "}">>

\* Programs with one call lowered after the callee's definition has been
\* entered: the call is to resolve to the callee-th function the program
\* defines and is emitted while the caller-th is the builder's function.
ResolvedCalls ==
    {[text |-> Recursion, callee |-> 1, caller |-> 1],
     [text |-> CallAfter, callee |-> 1, caller |-> 2],
     [text |-> CallAfterTopLevel, callee |-> 1, caller |-> 1],
     [text |-> Redefinition, callee |-> 2, caller |-> 2],
     [text |-> ShadowsPrint, callee |-> 1, caller |-> 1]}

\* A malformed line followed by well-formed lines.
RecoveryCases ==
    {[bad |-> b, good |-> g] : b \in {BadVar, BadPrint}, g \in {GoodPrint, GoodTwo}}

Programs ==
    {Scenario1, Scenario2, Scenario3, Scenario4, Scenario5, Scenario6, BadVar, Negative2,
     InFunctionIf, InFunctionWhile, ReturnEmpty}
        \cup UnknownVariableCases \cup ConditionPrograms \cup FunctionBodyCases
        \cup {c.text : c \in ScopeCases} \cup BlockPrograms
        \cup SelfInitPrograms \cup {c.text : c \in RejectedCalls} \cup AcceptedCalls
        \cup BranchPrograms \cup {c.text : c \in ResolvedCalls} \cup {CallBefore}
        \cup {c.bad \o <<NL>> \o c.good : c \in RecoveryCases}

Init ==
    /\ source \in Programs
    /\ lexer = LexerInit(source)
    /\ tokens = <<>>
    /\ pc = "lex"
    /\ parser = NoParser
    /\ program = <<>>
    /\ cerr = <<>>
    /\ codegen = NoCodegen
    /\ stmt = 0
    /\ argv = NoArgs
    /\ files = NoFiles

Next ==
    \/ TokenizeStep
    \/ TokenizeEnd
    \/ ParseProgramStep
    \/ ParseProgramEnd
    \/ GenerateStep
    \/ GenerateEnd

Spec == Init /\ [][Next]_vars

---------------------------------------------------------------------------
(* main() after generate(): the IR file, the helper C source and the external *)
(* compiler and interpreter (codegen.cpp, main.cpp).                          *)

\* A file's contents are its lines.
WriteFile(fs, name, contents) ==
    [n \in DOMAIN fs \cup {name} |-> IF n = name THEN contents ELSE fs[n]]

\* std::remove
Remove(fs, name) == [n \in DOMAIN fs \ {name} |-> fs[n]]

\* What module->print writes, and what the external compiler writes.
ModuleIR == <<"; ModuleID = 'TopLang Module'">>
ObjectCode == <<"object code">>

\* CodeGenerator::saveIRToFile: the module's IR is written unless the file
\* cannot be opened.
saveIRToFile(fs, name, opened) == IF opened THEN WriteFile(fs, name, ModuleIR) ELSE fs

\* The lines executeIRFile writes to print_helpers.c.
ExecuteHelperSource ==
    <<"#include <stdio.h>", "",
      "void printDouble(double value) {",
      "    printf(\"%f\\n\", value);",
      "}", "",
      "void printString(const char* str) {",
      "    printf(\"%s\\n\", str);",
      "}">>

\* The lines compileToExecutable writes to <output>_helpers.c.
CompileHelperSource ==
    <<"#include <stdio.h>", "",
      "void printDouble(double value) {",
      "    printf(\"%f\\n\", value);",
      "}", "",
      "void printString(const char* str) {",
      "    printf(\"%s\\n\", str);">>

FunctionHeaders ==
    {"void printDouble(double value) {", "void printString(const char* str) {"}

\* The lines define the function with this header: the header is followed by
\* a closing brace before any other header.
Defines(lines, header) ==
    \E i \in 1..Len(lines) :
        /\ lines[i] = header
        /\ \E j \in (i + 1)..Len(lines) :
             /\ lines[j] = "}"
             /\ \A k \in (i + 1)..(j - 1) : lines[k] \notin FunctionHeaders

\* The C compiler accepts the lines: every function that is opened is closed.
Compiles(lines) == \A h \in FunctionHeaders : (\E i \in 1..Len(lines) : lines[i] = h) => Defines(lines, h)

TempIR == "temp_program.ll"
HelperC == "print_helpers.c"
HelperO == "print_helpers.o"
CompileIR == argv.executableName \o ".ll"
CompileHelperC == argv.executableName \o "_helpers.c"

ToolError(what) == [from |-> "main", line |-> 0, column |-> 0, what |-> <<what>>]

\* main(): if (emitLLVM) codegen.saveIRToFile(filename + ".ll")
MainEmitLLVM ==
    /\ pc = "generated"
    /\ \E opened \in BOOLEAN :
         files' = IF argv.emitLLVM THEN saveIRToFile(files, argv.filename \o ".ll", opened)
                  ELSE files
    /\ pc' = "emitted"
    /\ UNCHANGED <<source, lexer, tokens, parser, program, cerr, codegen, stmt, argv>>

\* compileToExecutable up to its call of system(): the IR and the helper
\* source are written.
CompileToExecutableBegin ==
    /\ pc = "emitted"
    /\ argv.compileToExecutable
    /\ \E opened \in BOOLEAN :
         files' = WriteFile(saveIRToFile(files, CompileIR, opened), CompileHelperC,
                            CompileHelperSource)
    /\ pc' = "compile-clang"
    /\ UNCHANGED <<source, lexer, tokens, parser, program, cerr, codegen, stmt, argv>>

\* compileToExecutable from system("clang <ir> <helpers> -o <output>") on:
\* the compiler can succeed only when both files are there and the helper
\* source compiles; on failure the function returns at once.
CompileToExecutableEnd ==
    /\ pc = "compile-clang"
    /\ \E result \in {0, 1} :
         /\ result = 0 => /\ CompileIR \in DOMAIN files
                          /\ Compiles(files[CompileHelperC])
         /\ IF result # 0
            THEN /\ cerr' = Append(cerr, ToolError("Failed to compile executable"))
                 /\ files' = files
            ELSE /\ cerr' = cerr
                 /\ files' = Remove(Remove(WriteFile(files, argv.executableName, ObjectCode),
                                           CompileIR), CompileHelperC)
    /\ pc' = "compiled"
    /\ UNCHANGED <<source, lexer, tokens, parser, program, codegen, stmt, argv>>

\* main(): compileToExecutable is not asked for.
MainSkipCompile ==
    /\ pc = "emitted"
    /\ ~argv.compileToExecutable
    /\ pc' = "compiled"
    /\ UNCHANGED <<source, lexer, tokens, parser, program, cerr, codegen, stmt, argv, files>>

\* executeCode up to executeIRFile's first call of system(): the IR is saved
\* to temp_program.ll and executeIRFile writes print_helpers.c.
ExecuteCodeBegin ==
    /\ pc = "compiled"
    /\ argv.executeProgram
    /\ \E opened \in BOOLEAN :
         files' = WriteFile(saveIRToFile(files, TempIR, opened), HelperC, ExecuteHelperSource)
    /\ pc' = "exec-clang"
    /\ UNCHANGED <<source, lexer, tokens, parser, program, cerr, codegen, stmt, argv>>

\* main() --exec-ir <file>: executeIRFile on the user's IR file, up to its
\* first call of system().
ExecuteIRFileBegin ==
    /\ pc = "exec-ir"
    /\ files' = WriteFile(files, HelperC, ExecuteHelperSource)
    /\ pc' = "exec-clang"
    /\ UNCHANGED <<source, lexer, tokens, parser, program, cerr, codegen, stmt, argv>>

\* What follows executeIRFile's return: in executeCode the temporary IR file
\* is removed (main's --exec-ir mode returns at once).
afterExecuteIRFile(fs) == IF argv.mode = "exec-ir" THEN fs ELSE Remove(fs, TempIR)

\* executeCode's last lines: a new module with the two print functions.
resetModule(cg) == IF argv.mode = "exec-ir" THEN cg ELSE CodeGeneratorInit

\* executeIRFile at system("clang -c print_helpers.c -o print_helpers.o"): on
\* failure the helper source is removed and the function returns.
ExecuteCompileHelpers ==
    /\ pc = "exec-clang"
    /\ \E result \in {0, 1} :
         /\ result = 0 => Compiles(files[HelperC])
         /\ IF result # 0
            THEN /\ cerr' = Append(cerr, ToolError("Failed to compile helper functions"))
                 /\ files' = afterExecuteIRFile(Remove(files, HelperC))
                 /\ codegen' = resetModule(codegen)
                 /\ pc' = "exit"
            ELSE /\ cerr' = cerr
                 /\ files' = WriteFile(files, HelperO, ObjectCode)
                 /\ codegen' = codegen
                 /\ pc' = "exec-lli"
    /\ UNCHANGED <<source, lexer, tokens, parser, program, stmt, argv>>

\* executeIRFile from system("lli --extra-object=print_helpers.o <ir>") on:
\* the helper files are removed whatever lli returned.
ExecuteLli ==
    /\ pc = "exec-lli"
    /\ \E result \in {0, 1} :
         cerr' = IF result # 0
                 THEN Append(cerr, ToolError("Error: Failed to execute program"))
                 ELSE cerr
    /\ files' = afterExecuteIRFile(Remove(Remove(files, HelperC), HelperO))
    /\ codegen' = resetModule(codegen)
    /\ pc' = "exit"
    /\ UNCHANGED <<source, lexer, tokens, parser, program, stmt, argv>>

\* main(): --no-exec was given.
MainSkipExecute ==
    /\ pc = "compiled"
    /\ ~argv.executeProgram
    /\ pc' = "exit"
    /\ UNCHANGED <<source, lexer, tokens, parser, program, cerr, codegen, stmt, argv, files>>

\* The command lines main() accepts: a source file with --emit-llvm,
\* --no-exec and --compile <name> in any combination, or --exec-ir <file>.
CommandLines ==
    [mode : {"compile"}, filename : {"prog.top", "demo.top"}, emitLLVM : BOOLEAN,
     executeProgram : BOOLEAN, compileToExecutable : BOOLEAN,
     executableName : {"prog", "a.out"}]
        \cup [mode : {"exec-ir"}, filename : {"prog.ll", "demo.ll"}, emitLLVM : {FALSE},
              executeProgram : {TRUE}, compileToExecutable : {FALSE},
              executableName : {""}]

\* main() after codegen.generate(ast) of an empty program, or at the start
\* of its --exec-ir mode; the working directory holds the input file.
ToolsInit ==
    /\ argv \in CommandLines
    /\ pc = IF argv.mode = "exec-ir" THEN "exec-ir" ELSE "generated"
    /\ files = WriteFile(NoFiles, argv.filename,
                         IF argv.mode = "exec-ir" THEN ModuleIR ELSE <<>>)
    /\ codegen = IF argv.mode = "exec-ir" THEN NoCodegen ELSE CodeGeneratorInit
    /\ source = <<>>
    /\ lexer = LexerInit(<<>>)
    /\ tokens = tokenize(<<>>)
    /\ parser = ParserInit(tokens)
    /\ program = <<>>
    /\ cerr = <<>>
    /\ stmt = 0

ToolsNext ==
    \/ MainEmitLLVM
    \/ CompileToExecutableBegin
    \/ CompileToExecutableEnd
    \/ MainSkipCompile
    \/ ExecuteCodeBegin
    \/ ExecuteIRFileBegin
    \/ ExecuteCompileHelpers
    \/ ExecuteLli
    \/ MainSkipExecute

SpecTools == ToolsInit /\ [][ToolsNext]_vars

---------------------------------------------------------------------------
(* The claims about whole programs *)

Finished == pc \in {"done", "fault"}

\* The blocks of the function called n.
BlocksOf(n) ==
    {b \in 1..Len(codegen.blocks) :
        /\ codegen.blocks[b].parent # 0
        /\ codegen.functions[codegen.blocks[b].parent].name = n}

HasOp(b, op) == \E k \in 1..Len(codegen.blocks[b].insts) : codegen.blocks[b].insts[k].op = op

\* C1: the program `var x is 40 plus 2` / `print x`, which defines no
\* function, is generated without a fault and without a diagnostic, and its
\* store and its call of printDouble are in a block of some function that
\* holds no terminator.
C1_TopLevelCompiles ==
    (source = Scenario1 /\ Finished) =>
        /\ pc = "done"
        /\ codegen.fault = "none"
        /\ cerr = <<>>
        /\ \E b \in 1..Len(codegen.blocks) :
             /\ codegen.blocks[b].parent # 0
             /\ HasOp(b, "store")
             /\ HasOp(b, "call")
             /\ \A k \in 1..Len(codegen.blocks[b].insts) :
                  ~IsTerminator(codegen.blocks[b].insts[k])

\* C2: for `function add(a, b) { return a plus b }` followed by
\* `print add(2, 3)`, generation ends without a fault and no call instruction
\* (neither the call of add nor the call of printDouble) is in a block of add.
C2_TopLevelOutsideFunction ==
    (source = Scenario4 /\ Finished) =>
        /\ pc = "done"
        /\ codegen.fault = "none"
        /\ \A b \in BlocksOf(<<"a", "d", "d">>) : ~HasOp(b, "call")

\* C3: for a malformed line followed by well-formed lines, the parser reports
\* one diagnostic and the Program holds every statement of the later lines.
C3_RecoveryResumesNextLine ==
    \A c \in RecoveryCases :
        (source = c.bad \o <<NL>> \o c.good /\ Parsed) =>
            /\ Cardinality({i \in 1..Len(cerr) : cerr[i].from = "Parser"}) = 1
            /\ \A i \in 1..Len(parse(tokenize(c.good)).program) :
                 \E j \in 1..Len(program) :
                    /\ program[j].kind = parse(tokenize(c.good)).program[i].kind
                    /\ program[j] = parse(tokenize(c.good)).program[i]

\* C12: `function f() { return }` is accepted: the parser reports nothing and
\* yields the function with the body Return(absent), and the generator puts a
\* return of the constant 0.0 into a block of f.
C12_EmptyReturn ==
    (source = ReturnEmpty /\ Finished) =>
        /\ cerr = <<>>
        /\ program = <<FunctionNode(<<"f">>, <<>>, BlockNode(<<ReturnNode(Null)>>))>>
        /\ \E b \in BlocksOf(<<"f">>) :
             \E k \in 1..Len(codegen.blocks[b].insts) :
                /\ codegen.blocks[b].insts[k].op = "ret"
                /\ codegen.blocks[b].insts[k].args = <<Zero>>

\* The messages of the parser's exceptions that hold the word Expected.
ExpectedMessages ==
    {"Expected ')' after function arguments", "Expected ')'",
     "Expected identifier after 'var' or 'const'", "Expected 'is' after variable name",
     "Expected '{' at the beginning of a block", "Expected '}' at the end of a block",
     "Expected parameter name after comma", "Expected function name",
     "Expected '(' after function name", "Expected parameter name",
     "Expected ')' after parameters"}

\* C14: parsing the source `var x is` reports one parse error, for line 1,
\* whose message holds the word Expected, and adds no statement to the Program.
C14_MissingInitializer ==
    (source = BadVar /\ Parsed) =>
        /\ program = <<>>
        /\ Len(cerr) = 1
        /\ cerr[1].from = "Parser"
        /\ cerr[1].line = 1
        /\ cerr[1].what[1] \in ExpectedMessages

\* C15: when a program uses a variable that was never declared, the generator
\* reports "Unknown variable: y" and goes on through all remaining statements
\* without a fault, whatever consumes the null value: a print, a variable
\* initializer, an if or while condition, a return or a call argument.
C15_UnknownVariableContinues ==
    (source \in UnknownVariableCases /\ Finished) =>
        /\ pc = "done"
        /\ codegen.fault = "none"
        /\ \E i \in 1..Len(cerr) :
             /\ cerr[i].from = "CodeGenerator"
             /\ cerr[i].what = <<"Unknown variable: ", <<"y">>>>

\* The comparisons of an expression: the BinaryOp nodes that yield a 1-bit
\* boolean.
IsComparison(node) ==
    node.kind = "BinaryOp" /\ node.operation \in {"Equals", "NotEquals", "Greater", "Less"}

RECURSIVE CountComparisons(_)
CountComparisons(node) ==
    IF node.kind # "BinaryOp" THEN 0
    ELSE CountComparisons(node.left) + CountComparisons(node.right)
             + (IF IsComparison(node) THEN 1 ELSE 0)

\* The fcmp instruction of a comparison.
FCmpOf(operation) ==
    CASE operation = "Equals" -> "fcmp oeq"
      [] operation = "NotEquals" -> "fcmp one"
      [] operation = "Greater" -> "fcmp ogt"
      [] operation = "Less" -> "fcmp olt"

IsFCmp(inst) == inst.op \in {"fcmp oeq", "fcmp one", "fcmp ogt", "fcmp olt"}

CountFCmp(insts) == Cardinality({k \in 1..Len(insts) : IsFCmp(insts[k])})

\* The conditional branch ending the instructions insts tests the condition
\* node as claimed: a comparison's own 1-bit result with no comparison added,
\* any other value through one comparison with 0.0 (an instruction, or the
\* folded constant when the value is a constant).
CoercedOnce(node, insts) ==
    LET k == Len(insts)
        c == insts[k].args[1]
    IN  /\ k >= 1
        /\ insts[k].op = "condbr"
        /\ c.type = "i1"
        /\ IF IsComparison(node)
           THEN /\ k >= 2
                /\ insts[k - 1].op = FCmpOf(node.operation)
                /\ c = InstValue("i1", insts[k - 1].id)
                /\ CountFCmp(insts) = CountComparisons(node)
           ELSE \/ /\ k >= 2
                   /\ insts[k - 1].op = "fcmp one"
                   /\ insts[k - 1].args[2] = Zero
                   /\ insts[k - 1].args[1].type # "i1"
                   /\ c = InstValue("i1", insts[k - 1].id)
                   /\ CountFCmp(insts) = 1
                \/ /\ c.kind = "const"
                   /\ c.ref[1] = "fcmp one"
                   /\ c.ref[3] = Zero.ref
                   /\ CountFCmp(insts) = 0

\* C16: when an If or a While node inside a function is lowered, a condition
\* that is not a 1-bit boolean is wrapped in exactly one comparison with 0.0
\* and a condition that is a comparison is branched on directly, with no
\* comparison added: the function's only conditional branch sits in one block
\* and tests the condition that way.
C16_ConditionCoercedOnce ==
    (source \in ConditionPrograms /\ Finished) =>
        /\ pc = "done"
        /\ Len(program) = 1
        /\ Cardinality({b \in BlocksOf(<<"f">>) : HasOp(b, "condbr")}) = 1
        /\ \A b \in BlocksOf(<<"f">>) :
             HasOp(b, "condbr") =>
                CoercedOnce(program[1].body.statements[1].condition, codegen.blocks[b].insts)

\* C16's case: `function f(x) { while x { print 1 } }` has been lowered.
C16_Witness ==
    /\ source = WhileHead \o <<"x">> \o ConditionTail
    /\ pc = "done"
    /\ \E b \in BlocksOf(<<"f">>) : HasOp(b, "condbr")

\* C17: after compile_to_executable or execute has returned, none of the
\* temporary files it created is left in the directory, whether the external
\* compiler or interpreter succeeded or failed: not <output>.ll nor
\* <output>_helpers.c after the former, not temp_program.ll, print_helpers.c
\* nor print_helpers.o after the latter.
C17_TemporariesRemoved ==
    /\ (argv.mode = "compile" /\ argv.compileToExecutable
            /\ pc \in {"compiled", "exec-clang", "exec-lli", "exit"}) =>
          {CompileIR, CompileHelperC} \cap DOMAIN files = {}
    /\ (argv.mode = "compile" /\ argv.executeProgram /\ pc = "exit") =>
          {TempIR, HelperC, HelperO} \cap DOMAIN files = {}
    /\ (argv.mode = "exec-ir" /\ pc = "exit") =>
          {HelperC, HelperO} \cap DOMAIN files = {}

\* C18: the helper source compileToExecutable writes defines printDouble and
\* printString completely and is, line for line, the helper source
\* executeIRFile writes.
C18_HelperSourcesAgree ==
    pc = "compile-clang" =>
        /\ \A h \in FunctionHeaders : Defines(files[CompileHelperC], h)
        /\ files[CompileHelperC] = ExecuteHelperSource

\* C19: no instruction is ever appended to a basic block after the block's
\* terminator: in every block of the module a return or a branch is the last
\* instruction, for every program, those with a statement after a return or
\* after a function definition included.
C19_NothingAfterTerminator ==
    pc \in {"gen", "done"} =>
        \A b \in 1..Len(codegen.blocks) :
            \A k \in 1..(Len(codegen.blocks[b].insts) - 1) :
                ~IsTerminator(codegen.blocks[b].insts[k])

\* C20: when the visit of a top-level Function node has finished, every basic
\* block of that function ends in a terminator, whatever the body holds: if,
\* while, return or a nested function definition.
C20_FunctionBlocksTerminated ==
    (pc \in {"gen", "done"} /\ stmt >= 1 /\ program[stmt].kind = "Function") =>
        /\ BlocksOf(program[stmt].name) # {}
        /\ \A b \in BlocksOf(program[stmt].name) : getTerminator(codegen, b)

\* The "Unknown variable" diagnostics for the names of a sequence, in order.
UnknownVariables(names) ==
    [i \in 1..Len(names) |-> CodegenError(<<"Unknown variable: ", names[i]>>)]

\* C21: the visit of a Function node leaves namedValues as it was before the
\* visit, and the table is cleared on entry and restored on exit: inside the
\* body a name of the enclosing function is unknown, after the body the
\* function's parameters and locals are unknown, and the names bound before
\* the function still resolve.
C21_FunctionKeepsNamedValues ==
    /\ [][(pc = "gen" /\ pc' = "gen" /\ stmt' = stmt + 1
              /\ program[stmt'].kind = "Function")
             => codegen'.namedValues = codegen.namedValues]_vars
    /\ [](\A c \in ScopeCases :
            (source = c.text /\ Finished) => cerr = UnknownVariables(c.unknown))

\* A function nested in another one has been visited and the outer function's
\* parameter and local were read after it with no diagnostic.
C21_Witness ==
    /\ source = ScopeKept
    /\ pc = "done"
    /\ cerr = <<>>
    /\ DOMAIN codegen.namedValues = {}
    /\ Len(codegen.functions) = Len(declareStandardFunctions) + 2

\* The instructions of the module's blocks.
Instructions ==
    UNION {{codegen.blocks[b].insts[k] : k \in 1..Len(codegen.blocks[b].insts)} :
             b \in 1..Len(codegen.blocks)}

\* The slot of the variable declared with a constant initializer is read by
\* a later load and written by a later store.
SlotReadAndAssigned ==
    \E decl \in Instructions, ld \in Instructions, asg \in Instructions :
        /\ decl.op = "store" /\ decl.args[1].kind = "const"
        /\ ld.op = "load" /\ ld.args = <<decl.args[2]>>
        /\ asg.op = "store" /\ asg.args[1].kind = "const" /\ asg.args[2] = decl.args[2]
        /\ decl.id < ld.id /\ ld.id < asg.id
        /\ \E al \in Instructions : al.op = "alloca" /\ decl.args[2] = InstValue("ptr", al.id)

\* C22: a variable declared inside the body of an if, an else, a while or a
\* bare block stays bound after the block: a later print and a later
\* assignment of the same function use its slot and no "Unknown variable"
\* diagnostic is written.
C22_BlocksOpenNoScope ==
    (source \in BlockPrograms /\ Finished) =>
        /\ pc = "done"
        /\ cerr = <<>>
        /\ SlotReadAndAssigned

\* The program with the declaration in a while body has been generated, the
\* read and the assignment after the loop included.
C22_Witness ==
    /\ source = BlockWhile
    /\ pc = "done"
    /\ SlotReadAndAssigned
    /\ \E b \in BlocksOf(<<"f">>) : codegen.blocks[b].label = "afterloop"

\* The declaration's store writes the initializer's value to a slot of its
\* own, no load of that slot comes before the store, and the print after the
\* declaration reads the slot.
FreshSlotHoldsInitializer ==
    \E al \in Instructions, st \in Instructions, ld \in Instructions :
        /\ al.op = "alloca"
        /\ st.op = "store" /\ st.args[1].kind # "arg" /\ ~IsNull(st.args[1])
        /\ st.args[2] = InstValue("ptr", al.id)
        /\ ld.op = "load" /\ ld.args = <<st.args[2]>> /\ ld.id > st.id
        /\ \A other \in Instructions :
              (other.op = "load" /\ other.args = <<st.args[2]>>) => other.id > st.id
        /\ \A other \in Instructions :
              (other.op = "store" /\ other.args[2] = st.args[2]) => other = st

\* C23: in `var x is x plus 1` the x of the initializer is resolved before
\* the name is bound: it reads the slot x had before (the parameter's), or is
\* reported as an unknown variable when x had none, and never reads the new
\* slot; after the declaration x is bound to a new slot that holds the
\* initializer's value, which the print that follows reads.
C23_InitializerBeforeBinding ==
    (source \in SelfInitPrograms /\ Finished) =>
        /\ pc = "done"
        /\ cerr = IF source = SelfInitBound THEN <<>> ELSE UnknownVariables(<<<<"x">>>>)
        /\ FreshSlotHoldsInitializer

\* The slot of parameter i of function f: where the argument is stored.
SlotOf(f, i) ==
    (CHOOSE st \in Instructions : st.op = "store" /\ st.args[1] = ArgValue(f, i)).args[2]

\* A load of parameter i of the function called f.
IsLoadOf(inst, i) ==
    /\ inst.op = "load"
    /\ inst.args = <<SlotOf(getFunction(codegen, <<"f">>), i)>>

IsCallOfF(inst) == inst.op = "call" /\ inst.callee = getFunction(codegen, <<"f">>)

Result(inst) == InstValue("double", inst.id)

Calls == {inst \in Instructions : inst.op = "call"}
Loads == {inst \in Instructions : inst.op = "load"}

\* `f(b, a)`: b is loaded, then a, then the one call takes them in that order.
CallOrderLowered ==
    /\ cerr = <<>>
    /\ \E lb \in Loads, la \in Loads, call \in Calls :
          /\ IsLoadOf(lb, 2) /\ IsLoadOf(la, 1) /\ IsCallOfF(call)
          /\ lb.id < la.id /\ la.id < call.id
          /\ call.args = <<Result(lb), Result(la)>>
          /\ Calls = {call} /\ Loads = {lb, la}
          /\ codegen.currentValue = Result(call)

\* `f(f(a, b), b)`: the inner call with its arguments, then b, then the
\* outer call.
CallNestedLowered ==
    /\ cerr = <<>>
    /\ \E la \in Loads, lb \in Loads, inner \in Calls, lb2 \in Loads, outer \in Calls :
          /\ IsLoadOf(la, 1) /\ IsLoadOf(lb, 2) /\ IsLoadOf(lb2, 2)
          /\ IsCallOfF(inner) /\ IsCallOfF(outer)
          /\ la.id < lb.id /\ lb.id < inner.id /\ inner.id < lb2.id /\ lb2.id < outer.id
          /\ inner.args = <<Result(la), Result(lb)>>
          /\ outer.args = <<Result(inner), Result(lb2)>>
          /\ Calls = {inner, outer} /\ Loads = {la, lb, lb2}

\* `f(y, z)`: y is reported, then z, then the one call is emitted.
CallUnknownArgumentsLowered ==
    /\ cerr = UnknownVariables(<<<<"y">>, <<"z">>>>)
    /\ \E call \in Calls :
          /\ IsCallOfF(call) /\ call.args = <<NullValue, NullValue>>
          /\ Calls = {call} /\ Loads = {}

\* C24: a call of a name that is no function of the module, or with a number
\* of arguments that is not the callee's number of parameters, writes one
\* diagnostic, leaves currentValue null, generates none of its arguments (no
\* load, no diagnostic of an argument) and emits no call; any other call
\* generates its arguments from left to right and then emits exactly one call
\* instruction that takes them in order.
C24_CallChecksThenArguments ==
    /\ \A c \in RejectedCalls :
          (source = c.text /\ Finished) =>
              /\ pc = "done"
              /\ cerr = <<CodegenError(c.what)>>
              /\ IsNull(codegen.currentValue)
              /\ Loads = {} /\ Calls = {}
    /\ (source \in AcceptedCalls /\ Finished) =>
          /\ pc = "done"
          /\ source = CallOrder => CallOrderLowered
          /\ source = CallNested => CallNestedLowered
          /\ source = CallUnknownArguments => CallUnknownArgumentsLowered

\* The call `f(f(a, b), b)` has been generated: two calls in the module.
C24_Witness ==
    /\ source = CallNested
    /\ pc = "done"
    /\ Cardinality(Calls) = 2
    /\ CallNestedLowered

\* The last block of the function called f.
LastBlockOfF ==
    codegen.functions[getFunction(codegen, <<"f">>)].blocks[
        Len(codegen.functions[getFunction(codegen, <<"f">>)].blocks)]

\* C25: when the visit of an If or a While that ends a function's body
\* finishes, the insertion point is the node's continuation block (ifcont,
\* afterloop) and that block is empty, so that the function's end adds its
\* `ret 0.0` there as the block's only instruction; every then, else,
\* loopcond and loop block ends in a terminator.
C25_ContinuationBlockCurrent ==
    (source \in BranchPrograms /\ Finished) =>
        /\ pc = "done"
        /\ codegen.insertBlock = LastBlockOfF
        /\ codegen.blocks[LastBlockOfF].label \in {"ifcont", "afterloop"}
        /\ Len(codegen.blocks[LastBlockOfF].insts) = 1
        /\ codegen.blocks[LastBlockOfF].insts[1].op = "ret"
        /\ codegen.blocks[LastBlockOfF].insts[1].args = <<Zero>>
        /\ \A b \in 1..Len(codegen.blocks) :
              codegen.blocks[b].label \in {"then", "else", "loopcond", "loop"}
                  => getTerminator(codegen, b)

\* The k-th function the program has defined: the functions are added to
\* the module after the two the generator declares.
Defined(k) == Len(declareStandardFunctions) + k

\* The function whose block holds the instruction.
FunctionOf(inst) ==
    codegen.blocks[CHOOSE b \in 1..Len(codegen.blocks) :
                      \E k \in 1..Len(codegen.blocks[b].insts) :
                         codegen.blocks[b].insts[k] = inst].parent

\* C26: a function is in the module from before its body is lowered: a call
\* from inside its own body and a call lowered after its definition resolve
\* to that function with no diagnostic, and a call lowered before the
\* definition writes "Unknown function: f", emits no call and leaves
\* currentValue null.
C26_RegisteredBeforeBody ==
    /\ \A c \in ResolvedCalls :
          (source = c.text /\ Finished) =>
              /\ pc = "done"
              /\ cerr = <<>>
              /\ \E call \in Calls :
                    /\ Calls = {call}
                    /\ call.callee = Defined(c.callee)
                    /\ FunctionOf(call) = Defined(c.caller)
    /\ (source = CallBefore /\ Finished) =>
          /\ pc = "done"
          /\ cerr = <<CodegenError(<<"Unknown function: ", <<"f">>>>)>>
          /\ Calls = {}
          /\ IsNull(codegen.currentValue)

=============================================================================
